---------------------------- MODULE Spec2Model ----------------------------
(***************************************************************************)
(* Device registry, leasing, host command executor, chunked transfer and   *)
(* the execution orchestrator of the test station.                         *)
(*                                                                         *)
(*   Spec      executeApp: lease per host, upload per host, one execute_app *)
(*             task per leased device, with failures of every call.        *)
(*   SpecReg   one host, the RPC handlers getFreeDevices / unlockDevice /  *)
(*             getAdbDevices served one after the other.                   *)
(*   SpecLease one host, the registry handlers served concurrently by the  *)
(*             worker threads of the RPC server.                           *)
(*   SpecAdb   one host, the device handlers and the enumeration served    *)
(*             concurrently by the worker threads, with the adb lock.      *)
(*   SpecXfer  the chunked upload of a file followed by its pull.          *)
(*   SpecList  getdevices: the listing over all hosts, merged.             *)
(*   SpecTool  the Device operations of one device, with the outcome of    *)
(*             each adb invocation they make.                              *)
(*   SpecDev   one host, the registry handlers and the device handlers     *)
(*             (install, run, logcat capture) served one after the other.  *)
(***************************************************************************)
EXTENDS Integers, Sequences, FiniteSets, TLC

(***************************************************************************)
(* Bounds of the model.                                                    *)
(***************************************************************************)
NumDevices == 3
MaxCount == 3
MaxGrants == 2
NumWorkers == 2
MaxPayload == 5
MaxRequest == 2
MaxRuns == 2
MaxFailures == 2
MaxAlive == 2
\* The chunk size of the transfer protocol (1 MiB in the source), scaled down.
CHUNK_SIZE == 2

(***************************************************************************)
(* Hosts, devices and the values of the Device fields.                     *)
(***************************************************************************)
Hosts == {"A", "B"}
DeviceIds == 1..NumDevices
HostOf(d) == IF d % 2 = 1 THEN "A" ELSE "B"
HostDevices(h) == {d \in DeviceIds : HostOf(d) = h}

None == "None"
Pkg == "pkg"
\* The sentinel id "__ALL__" of unlockDevice, an id no device has.
ALL == 0
VALID_DEVICE_STATES == {"device", "unauthorized"}
\* "offline": not listed by `adb devices`, or listed in a state that is not valid.
AdbStates == {"offline", "device", "unauthorized"}
CountValues == (0 - 1)..MaxCount
NoOp == [op |-> "none"]

VARIABLES
    devices,                 \* VTestStation.devices: host -> ids in insertion order
    in_use,                  \* Device.in_use
    last_installed_app,      \* Device.last_installed_app
    running_app_pid,         \* Device.running_app_pid (0, or 1 for a pid)
    logcat_collect_process,  \* Device.logcat_collect_process is not None
    logout_tempfile,         \* Device.logout_tempfile is not None
    procs,                   \* capture processes started for a device and alive
    adb_state,               \* what `adb devices` reports for each device
    last_op,                 \* the last handler call with its response
    outstanding,             \* grants of a device since its last release
    live,                    \* grants since its last release or removal
    th,                      \* the worker threads of the RPC server
    adb_lock,                \* VTestStation.adb_lock: 0 when free, else the holder
    xfer_pc,                 \* position of the upload / pull exchange
    payload,                 \* the bytes of the client's file
    stream,                  \* the chunks of the stream not yet consumed
    server_file,             \* the stored file: NoFile or its bytes
    full_response,           \* pull_file: the bytes received so far
    xfer_result,             \* results of upload_file and pull_file
    req,                     \* the executeApp request being served
    return_dict,             \* executeApp: return_dict, per device
    task,                    \* the execute_app task of each leased device
    injected,                \* the failures forced on a device's calls so far
    loop_owner,              \* the task running on the event loop, 0 if none
    listing,                 \* the getdevices request being served
    packages                 \* the packages installed on each device

regVars == <<devices, in_use, last_installed_app, running_app_pid,
             logcat_collect_process, logout_tempfile, procs, adb_state>>
histVars == <<last_op, outstanding, live>>
thrVars == <<th, adb_lock>>
xferVars == <<xfer_pc, payload, stream, server_file, full_response, xfer_result>>
orchVars == <<req, return_dict, task, injected, loop_owner>>
listVars == <<listing>>
pkgVars == <<packages>>
vars == <<regVars, histVars, thrVars, xferVars, orchVars, listVars, pkgVars>>

(***************************************************************************)
(* Helpers on sequences.                                                   *)
(***************************************************************************)
Range(s) == {s[i] : i \in 1..Len(s)}

Min(a, b) == IF a < b THEN a ELSE b

RECURSIVE SortedSeq(_)
SortedSeq(S) ==
    IF S = {} THEN <<>>
    ELSE LET m == CHOOSE x \in S : \A y \in S : x <= y
         IN <<m>> \o SortedSeq(S \ {m})

RECURSIVE SumOver(_, _)
SumOver(f, S) ==
    IF S = {} THEN 0
    ELSE LET x == CHOOSE y \in S : TRUE
         IN f[x] + SumOver(f, S \ {x})

(***************************************************************************)
(* get_all_devices: the ids `adb devices` lists in a valid state, in the   *)
(* order of the listing; {} on a timeout.                                  *)
(***************************************************************************)
EnumTimeoutIgnored(h, outcome) ==
    SortedSeq({d \in HostDevices(h) : adb_state[d] \in VALID_DEVICE_STATES})

get_all_devices(h, outcome) ==
    IF outcome = "timeout" THEN <<>>
    ELSE SortedSeq({d \in HostDevices(h) : adb_state[d] \in VALID_DEVICE_STATES})

(***************************************************************************)
(* VTestStation.add_device for every enumerated device in state "device",  *)
(* then del_device for every known device the enumeration does not list.   *)
(***************************************************************************)
AddedOnlyFirst(reg, enumerated) ==
    LET new == SelectSeq(enumerated,
                         LAMBDA d : adb_state[d] = "device" /\ d \notin Range(reg))
    IN IF Len(new) = 0 THEN new ELSE <<Head(new)>>

AddedDevices(reg, enumerated) ==
    SelectSeq(enumerated,
              LAMBDA d : adb_state[d] = "device" /\ d \notin Range(reg))

RefreshedKeepsLeased(reg, enumerated) ==
    SelectSeq(reg \o AddedDevices(reg, enumerated),
              LAMBDA d : d \in Range(enumerated) \/ in_use[d])

RefreshedRegistry(reg, enumerated) ==
    SelectSeq(reg \o AddedDevices(reg, enumerated),
              LAMBDA d : d \in Range(enumerated))

(***************************************************************************)
(* The effect of getAdbDevices on the registry of host h. Records that are *)
(* deleted or created carry the defaults of the Device dataclass.          *)
(***************************************************************************)
FreshAll(reg, newreg) == Range(reg) \cup Range(newreg)

Fresh(reg, newreg) == (Range(reg) \ Range(newreg)) \cup (Range(newreg) \ Range(reg))

\* Device.start_collect_logcat: Popen starts one more capture process.
StartedProcs(d) == [procs EXCEPT ![d] = @ + 1]

\* The process recorded in logcat_collect_process is terminated or killed
\* (Device.stop_collect_logcat, Device.__del__).
EndedProcs(S) == [d \in DeviceIds |-> IF d \in S THEN procs[d] - 1 ELSE procs[d]]

RefreshRegistry(h, outcome) ==
    LET reg == devices[h]
        newreg == IF outcome = "error" THEN reg
                  ELSE RefreshedRegistry(reg, get_all_devices(h, outcome))
        fresh == Fresh(reg, newreg)
    IN /\ devices' = [devices EXCEPT ![h] = newreg]
       /\ in_use' = [d \in DeviceIds |-> IF d \in fresh THEN FALSE ELSE in_use[d]]
       /\ last_installed_app' =
              [d \in DeviceIds |-> IF d \in fresh THEN None ELSE last_installed_app[d]]
       /\ running_app_pid' =
              [d \in DeviceIds |-> IF d \in fresh THEN 0 ELSE running_app_pid[d]]
       /\ logcat_collect_process' =
              [d \in DeviceIds |-> IF d \in fresh THEN FALSE ELSE logcat_collect_process[d]]
       /\ logout_tempfile' =
              [d \in DeviceIds |-> IF d \in fresh THEN FALSE ELSE logout_tempfile[d]]
       /\ procs' = EndedProcs({d \in Range(reg) \ Range(newreg) :
                                 logcat_collect_process[d]})

(***************************************************************************)
(* The scan of getFreeDevices over VTestStation.devices.values(): i is the *)
(* position in the registry, ret the accumulated ret_devices.              *)
(***************************************************************************)
RECURSIVE ScanNoSkip(_, _, _, _, _, _)
ScanNoSkip(reg, i, ret, num_devices, wish_devices, inuse) ==
    IF i > Len(reg) THEN ret
    ELSE IF wish_devices = {}
         THEN IF Len(ret) = num_devices THEN ret
              ELSE ScanNoSkip(reg, i + 1, Append(ret, reg[i]), num_devices,
                              wish_devices, inuse)
         ELSE IF reg[i] \in wish_devices
              THEN ScanNoSkip(reg, i + 1, Append(ret, reg[i]), num_devices,
                              wish_devices, inuse)
              ELSE ScanNoSkip(reg, i + 1, ret, num_devices, wish_devices, inuse)

RECURSIVE ScanCountsWished(_, _, _, _, _, _)
ScanCountsWished(reg, i, ret, num_devices, wish_devices, inuse) ==
    IF i > Len(reg) \/ Len(ret) = num_devices THEN ret
    ELSE IF inuse[reg[i]] \/ (wish_devices # {} /\ reg[i] \notin wish_devices)
         THEN ScanCountsWished(reg, i + 1, ret, num_devices, wish_devices, inuse)
         ELSE ScanCountsWished(reg, i + 1, Append(ret, reg[i]), num_devices,
                               wish_devices, inuse)

RECURSIVE ScanDevices(_, _, _, _, _, _)
ScanDevices(reg, i, ret, num_devices, wish_devices, inuse) ==
    IF i > Len(reg) THEN ret
    ELSE IF inuse[reg[i]]
         THEN ScanDevices(reg, i + 1, ret, num_devices, wish_devices, inuse)
         ELSE IF wish_devices = {}
              THEN IF Len(ret) = num_devices THEN ret
                   ELSE ScanDevices(reg, i + 1, Append(ret, reg[i]), num_devices,
                                    wish_devices, inuse)
              ELSE IF reg[i] \in wish_devices
                   THEN ScanDevices(reg, i + 1, Append(ret, reg[i]), num_devices,
                                    wish_devices, inuse)
                   ELSE ScanDevices(reg, i + 1, ret, num_devices, wish_devices, inuse)

\* The requests (num_devices, wish_devices) of a lease; num_devices is read
\* only when wish_devices is empty.
LeaseRequests(counts, ids) ==
    {<<n, {}>> : n \in counts} \cup {<<1, w>> : w \in (SUBSET ids) \ {{}}}

LeaseErrorOnShort(ret, num_devices) ==
    IF Len(ret) < num_devices THEN "No free devices" ELSE ""

LeaseError(ret, num_devices) ==
    IF Len(ret) = 0 THEN "No free devices" ELSE ""

(***************************************************************************)
(* Bookkeeping of the leases handed out: a grant increments, saturating at *)
(* MaxGrants; a release resets.                                            *)
(***************************************************************************)
Granted(cnt, ids) ==
    [d \in DeviceIds |-> IF d \in ids THEN Min(cnt[d] + 1, MaxGrants) ELSE cnt[d]]

Cleared(cnt, ids) ==
    [d \in DeviceIds |-> IF d \in ids THEN 0 ELSE cnt[d]]

(***************************************************************************)
(* State after construction: empty registries.                             *)
(***************************************************************************)
InitRegistry ==
    /\ devices = [h \in Hosts |-> <<>>]
    /\ in_use = [d \in DeviceIds |-> FALSE]
    /\ last_installed_app = [d \in DeviceIds |-> None]
    /\ running_app_pid = [d \in DeviceIds |-> 0]
    /\ logcat_collect_process = [d \in DeviceIds |-> FALSE]
    /\ logout_tempfile = [d \in DeviceIds |-> FALSE]
    /\ procs = [d \in DeviceIds |-> 0]
    /\ packages = [d \in DeviceIds |-> {}]

InitHist ==
    /\ last_op = NoOp
    /\ outstanding = [d \in DeviceIds |-> 0]
    /\ live = [d \in DeviceIds |-> 0]

(***************************************************************************)
(* The worker threads of grpc.server(ThreadPoolExecutor(max_workers)).     *)
(***************************************************************************)
Threads == 1..NumWorkers

IdleThread == [pc |-> "idle", op |-> "none", num |-> 0, wish |-> {}, cur |-> 0,
               ret |-> <<>>, left |-> 0, tool |-> "none", out |-> "none"]

InitThreads ==
    /\ th = [t \in Threads |-> IdleThread]
    /\ adb_lock = 0

(***************************************************************************)
(* The transfer protocol: no exchange in progress.                         *)
(***************************************************************************)
NoFile == "NoFile"
NoResult == [upload |-> "none", pull_error |-> FALSE, pull |-> <<>>]

InitNoXfer ==
    /\ xfer_pc = "idle"
    /\ payload = <<>>
    /\ stream = <<>>
    /\ server_file = NoFile
    /\ full_response = <<>>
    /\ xfer_result = NoResult

(***************************************************************************)
(* The orchestrator: no request, no task.                                  *)
(***************************************************************************)
\* cause: where a failed executeApp was left ("lease", "nolock", "store",
\* "upload", "task").
NoRequest == [pc |-> "idle", devs |-> {}, todo |-> <<>>, locked |-> {}, n |-> 0,
              cause |-> "none"]

\* ExecutionResult(error=True, result="") and the position in execute_app;
\* exc: an exception is propagating; resp: the answer of an offloaded call;
\* failed: the pipeline stage that failed in this run; calls: the stages
\* execute_app has invoked so far, in the order of their invocation.
NoTask == [pc |-> "none", error |-> TRUE, result |-> "", logcat_file |-> FALSE,
           exc |-> FALSE, resp |-> "", failed |-> "none", calls |-> <<>>,
           detail |-> ""]

\* getdevices: no listing requested.
NoListing == [pc |-> "idle", todo |-> <<>>, amount |-> 0, ids |-> {},
              devices |-> {}, answered |-> {}]

InitNoRequest ==
    /\ listing = NoListing
    /\ req = NoRequest
    /\ return_dict = [d \in DeviceIds |-> "none"]
    /\ task = [d \in DeviceIds |-> NoTask]
    /\ injected = [d \in DeviceIds |-> [n |-> 0, stage |-> "none"]]
    /\ loop_owner = 0

(***************************************************************************)
(* SpecReg: the handlers of one host, each served to completion.           *)
(***************************************************************************)
RegHost == "A"

InitReg ==
    /\ InitRegistry
    /\ InitHist
    /\ InitThreads
    /\ InitNoXfer
    /\ InitNoRequest
    /\ adb_state = [d \in DeviceIds |-> "device"]

RegFrame == UNCHANGED <<thrVars, xferVars, orchVars, listVars, pkgVars>>

\* A device is plugged, unplugged or changes its connection state.
AdbChange(d, s) ==
    /\ adb_state[d] # s
    /\ adb_state' = [adb_state EXCEPT ![d] = s]
    /\ UNCHANGED <<devices, in_use, last_installed_app, running_app_pid,
                   logcat_collect_process, logout_tempfile, procs, histVars>>

\* What the enumeration reports for the devices of host h: the state of a
\* listed device, "offline" for a device it does not list.
Seen(h, outcome) ==
    [d \in HostDevices(h) |->
        IF outcome = "ok" /\ adb_state[d] \in VALID_DEVICE_STATES
        THEN adb_state[d] ELSE "offline"]

\* VTestFunctions.getAdbDevices. The response is recorded with what the
\* enumeration reported, the records created and deleted (leased: deleted
\* with in_use set), and again: the call before was the same refresh with
\* the same report.
getAdbDevices(h, outcome) ==
    /\ RefreshRegistry(h, outcome)
    /\ last_op' = [op |-> "refresh", host |-> h, outcome |-> outcome,
                   error |-> IF outcome = "error" THEN "Get all devices failed" ELSE "",
                   seen |-> Seen(h, outcome),
                   added |-> Range(devices'[h]) \ Range(devices[h]),
                   removed |-> Range(devices[h]) \ Range(devices'[h]),
                   leased |-> {d \in Range(devices[h]) \ Range(devices'[h]) : in_use[d]},
                   again |-> /\ last_op.op = "refresh"
                             /\ last_op.host = h
                             /\ last_op.outcome = outcome
                             /\ last_op.seen = Seen(h, outcome)]
    /\ live' = Cleared(live, Range(devices[h]) \ Range(devices'[h]))
    /\ UNCHANGED <<adb_state, outstanding>>

RefreshAlways(reg) == TRUE

\* getFreeDevices: `if len(VTestStation.devices) == 0`
NeedsRefresh(reg) == Len(reg) = 0

\* VTestFunctions.getFreeDevices; the registry is refreshed first when empty.
getFreeDevices(h, num_devices, wish_devices, outcome) ==
    LET lazy == NeedsRefresh(devices[h])
        reg == IF lazy /\ outcome # "error"
               THEN RefreshedRegistry(devices[h], get_all_devices(h, outcome))
               ELSE devices[h]
        ret == ScanDevices(reg, 1, <<>>, num_devices, wish_devices, in_use)
    IN /\ lazy \/ outcome = "ok"
       /\ devices' = [devices EXCEPT ![h] = reg]
       /\ in_use' = [d \in DeviceIds |-> IF d \in Range(ret) THEN TRUE ELSE in_use[d]]
       /\ last_op' = [op |-> "lease", host |-> h, num_devices |-> num_devices,
                      wish_devices |-> wish_devices, refreshed |-> lazy,
                      free |-> {d \in Range(devices[h]) : ~in_use[d]},
                      result |-> ret, error |-> LeaseError(ret, num_devices)]
       /\ outstanding' = Granted(outstanding, Range(ret))
       /\ live' = Granted(live, Range(ret))
       /\ UNCHANGED <<last_installed_app, running_app_pid, logcat_collect_process,
                      logout_tempfile, procs,
                      adb_state>>

\* VTestFunctions.unlockDevice
UnlockTargetsAllOnly(h, did) ==
    IF did = ALL THEN Range(devices[h]) ELSE {}

UnlockTargetsWholeHost(h, did) ==
    IF did = ALL \/ did \in Range(devices[h]) THEN Range(devices[h]) ELSE {}

UnlockTargets(h, did) ==
    IF did = ALL THEN Range(devices[h])
    ELSE IF did \in Range(devices[h]) THEN {did} ELSE {}

unlockDevice(h, did) ==
    /\ in_use' = [d \in DeviceIds |-> IF d \in UnlockTargets(h, did) THEN FALSE
                                      ELSE in_use[d]]
    /\ last_op' = [op |-> "unlock", host |-> h, did |-> did,
                   error |-> IF did # ALL /\ did \notin Range(devices[h])
                             THEN "Device not found" ELSE ""]
    /\ outstanding' = Cleared(outstanding,
                              IF did = ALL THEN HostDevices(h) ELSE {did})
    /\ live' = Cleared(live, IF did = ALL THEN HostDevices(h) ELSE {did})
    /\ UNCHANGED <<devices, last_installed_app, running_app_pid,
                   logcat_collect_process, logout_tempfile, procs, adb_state>>

RegAdbChange ==
    /\ \E d \in HostDevices(RegHost), s \in AdbStates : AdbChange(d, s)
    /\ RegFrame

RegRefresh ==
    /\ \E o \in {"ok", "timeout", "error"} : getAdbDevices(RegHost, o)
    /\ RegFrame

RegLease ==
    /\ \E r \in LeaseRequests(CountValues, HostDevices(RegHost)) :
         \E o \in IF Len(devices[RegHost]) = 0 THEN {"ok", "timeout", "error"}
                  ELSE {"ok"} :
             getFreeDevices(RegHost, r[1], r[2], o)
    /\ RegFrame

RegRelease ==
    /\ \E did \in HostDevices(RegHost) \cup {ALL} : unlockDevice(RegHost, did)
    /\ RegFrame

NextReg == RegAdbChange \/ RegRefresh \/ RegLease \/ RegRelease

SpecReg == InitReg /\ [][NextReg]_vars

(***************************************************************************)
(* Properties of the registry under SpecReg.                               *)
(***************************************************************************)
InUseCount(h) == Cardinality({d \in Range(devices[h]) : in_use[d]})

\* C3 (as stated): a device id returned by a lease is not returned by a
\* later lease until release has been called for it: no device has two
\* grants without a release between them.
C3_NoRegrantBeforeRelease ==
    \A d \in HostDevices(RegHost) : outstanding[d] <= 1

\* C3 (amended): a device id returned by a lease is not returned by a later
\* lease until release has been called for it or a refresh has removed the
\* device from the registry.
C3_NoRegrantBeforeReleaseOrRemoval ==
    \A d \in HostDevices(RegHost) : live[d] <= 1

\* A device was leased, dropped by a refresh, discovered again and leased again.
C3_Witness ==
    \E d \in HostDevices(RegHost) :
        outstanding[d] >= 2 /\ live[d] = 1 /\ in_use[d] /\ last_op.op = "lease"

\* C5 (as stated): the number of registry devices with in_use = true equals
\* the number of leases granted and not yet released.
C5_InUseEqualsOutstanding ==
    InUseCount(RegHost) = SumOver(outstanding, HostDevices(RegHost))

\* C5 (amended): the number of registry devices with in_use = true equals the
\* number of leases granted and neither released nor dropped with their
\* device by a refresh.
C5_InUseEqualsLive ==
    InUseCount(RegHost) = SumOver(live, HostDevices(RegHost))

\* One lease was dropped with its device by a refresh, another is still held.
C5_Witness ==
    /\ \E d \in HostDevices(RegHost) : outstanding[d] = 1 /\ live[d] = 0
    /\ InUseCount(RegHost) = 1
    /\ last_op.op = "refresh"

\* C7: a lease with a non-empty desired-id set returns only ids of that set;
\* a lease with an empty set returns at most count ids (none when count is
\* not positive), for every count the request can carry.
C7_LeaseWithinRequest ==
    last_op.op = "lease" =>
        /\ last_op.wish_devices # {} => Range(last_op.result) \subseteq last_op.wish_devices
        /\ last_op.wish_devices = {} =>
               Len(last_op.result) <= (IF last_op.num_devices > 0
                                       THEN last_op.num_devices ELSE 0)

\* C8: a lease with an empty desired-id set and count n on a registry with
\* k free devices, 0 < k < n, returns exactly those k devices without error,
\* each in_use afterwards; the error is 'No free devices' exactly when no
\* device is returned.
C8_PartialLeaseSucceeds ==
    last_op.op = "lease" =>
        /\ (/\ last_op.wish_devices = {}
            /\ 0 < Cardinality(last_op.free)
            /\ Cardinality(last_op.free) < last_op.num_devices)
           => /\ last_op.error = ""
              /\ Range(last_op.result) = last_op.free
              /\ Len(last_op.result) = Cardinality(last_op.free)
              /\ \A d \in last_op.free : in_use[d]
        /\ (last_op.error = "No free devices") <=> (Len(last_op.result) = 0)

\* count = 3 on a registry with two free devices: both are leased, no error.
C8_Witness ==
    /\ last_op.op = "lease"
    /\ last_op.wish_devices = {}
    /\ last_op.num_devices = 3
    /\ Cardinality(last_op.free) = 2
    /\ Len(last_op.result) = 2
    /\ last_op.error = ""

(***************************************************************************)
(* The handlers of one host served concurrently by the worker threads. A   *)
(* thread switch can fall between any two statements of a handler; the     *)
(* steps below are the reads and writes of shared state. The attached      *)
(* devices do not change and the enumeration answers. SpecLease runs the   *)
(* registry handlers, SpecAdb the handlers that invoke adb.                *)
(***************************************************************************)
\* How one adb invocation ends: without stderr, with text on stderr, or on
\* the timeout of communicate() (another exception is handled the same way).
ToolOutcomes == {"ok", "stderr", "timeout"}

\* The adb invocations a handler issues through Device._exec_adb, in order.
AdbCommands(op) ==
    CASE op = "installApp" ->
             <<"shell log", "uninstall", "shell log", "install", "shell pm list">>
      [] op = "uninstallApp" -> <<"shell log", "uninstall">>
      [] op = "startLogcatCollect" -> <<"logcat -c">>
      [] op = "runLastInstalledApk" ->
             <<"shell log", "shell monkey", "shell pidof", "shell log",
               "shell pm clear", "shell log", "shell am force-stop", "shell log">>
      [] OTHER -> <<>>

DeviceOps == {"installApp", "uninstallApp", "startLogcatCollect"}

ToolsRunning == {t \in Threads : th[t].tool # "none"}

\* CommunicationServicer.GetFreeDevices is picked up by a free worker;
\* getFreeDevices reads len(VTestStation.devices).
HostLeaseCall(t, n, w) ==
    /\ th[t].pc = "idle"
    /\ th' = [th EXCEPT ![t] = [IdleThread EXCEPT
                  !.pc = IF Len(devices[RegHost]) = 0 THEN "enum" ELSE "gfd_scan",
                  !.op = "lease", !.num = n, !.wish = w, !.cur = 1]]
    /\ UNCHANGED <<regVars, histVars, adb_lock>>

\* CommunicationServicer.GetAdbDevices is picked up by a free worker.
HostRefreshCall(t) ==
    /\ th[t].pc = "idle"
    /\ th' = [th EXCEPT ![t] = [IdleThread EXCEPT !.pc = "enum", !.op = "refresh"]]
    /\ UNCHANGED <<regVars, histVars, adb_lock>>

\* get_all_devices starts `adb devices` with subprocess.check_output.
HostEnumDevices(t) ==
    /\ th[t].pc = "enum"
    /\ th' = [th EXCEPT ![t].pc = "enum_devices", ![t].tool = "devices"]
    /\ UNCHANGED <<regVars, histVars, adb_lock>>

\* `adb devices` has answered; `adb shell getprop` is started per device.
HostEnumGetprop(t) ==
    /\ th[t].pc = "enum_devices"
    /\ th' = [th EXCEPT ![t].pc = "enum_getprop", ![t].tool = "shell getprop"]
    /\ UNCHANGED <<regVars, histVars, adb_lock>>

\* The enumeration is complete: getAdbDevices adds and deletes records.
HostEnumEnd(t) ==
    /\ th[t].pc = "enum_getprop"
    /\ RefreshRegistry(RegHost, "ok")
    /\ IF th[t].op = "lease"
       THEN /\ th' = [th EXCEPT ![t].pc = "gfd_scan", ![t].tool = "none"]
            /\ UNCHANGED last_op
       ELSE /\ th' = [th EXCEPT ![t] = IdleThread]
            /\ last_op' = [op |-> "refresh", host |-> RegHost, outcome |-> "ok",
                           error |-> ""]
    /\ UNCHANGED <<adb_state, outstanding, live, adb_lock>>

\* One round of `for device in VTestStation.devices.values()` up to the
\* decision to take the device: the read of device.in_use.
HostLeaseScan(t) ==
    /\ th[t].pc = "gfd_scan"
    /\ LET reg == devices[RegHost]
           i == th[t].cur
       IN th' = [th EXCEPT ![t] =
              IF i > Len(reg) THEN [@ EXCEPT !.pc = "gfd_return"]
              ELSE IF in_use[reg[i]] THEN [@ EXCEPT !.cur = i + 1]
              ELSE IF th[t].wish = {}
                   THEN IF Len(th[t].ret) = th[t].num
                        THEN [@ EXCEPT !.pc = "gfd_return"]
                        ELSE [@ EXCEPT !.pc = "gfd_mark"]
                   ELSE IF reg[i] \in th[t].wish
                        THEN [@ EXCEPT !.pc = "gfd_mark"]
                        ELSE [@ EXCEPT !.cur = i + 1]]
    /\ UNCHANGED <<regVars, histVars, adb_lock>>

\* add_device(device): device.in_use = True; ret_devices.append(device.id)
HostLeaseMark(t) ==
    /\ th[t].pc = "gfd_mark"
    /\ LET d == devices[RegHost][th[t].cur]
       IN /\ in_use' = [in_use EXCEPT ![d] = TRUE]
          /\ th' = [th EXCEPT ![t].ret = Append(@, d), ![t].cur = @ + 1,
                              ![t].pc = "gfd_scan"]
    /\ UNCHANGED <<devices, last_installed_app, running_app_pid,
                   logcat_collect_process,
                   logout_tempfile, procs, adb_state, histVars, adb_lock>>

\* The DeviceIdResponse goes back to the caller.
HostLeaseReturn(t) ==
    /\ th[t].pc = "gfd_return"
    /\ last_op' = [op |-> "lease", host |-> RegHost,
                   error |-> LeaseError(th[t].ret, th[t].num)]
    /\ live' = Granted(live, Range(th[t].ret))
    /\ th' = [th EXCEPT ![t] = IdleThread]
    /\ UNCHANGED <<regVars, outstanding, adb_lock>>

\* CommunicationServicer.UnlockDevice: one write per device.
HostUnlock(t, did) ==
    /\ th[t].pc = "idle"
    /\ unlockDevice(RegHost, did)
    /\ UNCHANGED thrVars

\* A handler that drives the device through Device._exec_adb. uninstall_apk
\* without a package name forgets last_installed_app before its commands;
\* run_apk does nothing without last_installed_app. runLastInstalledApk
\* ends after `shell pidof` when no pid is found, else it sleeps for
\* execution_time; kill_apk force-stops when `pm clear` did not succeed.
HostDeviceCall(t, d, op) ==
    /\ th[t].pc = "idle"
    /\ d \in Range(devices[RegHost])
    /\ op \in {"uninstallApp", "runLastInstalledApk"} => last_installed_app[d] # None
    /\ op = "startLogcatCollect" => procs[d] < MaxAlive
    /\ th' = [th EXCEPT ![t] = [IdleThread EXCEPT !.pc = "adb_wait", !.op = op,
                                   !.cur = d, !.left = Len(AdbCommands(op))]]
    /\ last_installed_app' =
           IF op = "uninstallApp" THEN [last_installed_app EXCEPT ![d] = None]
           ELSE last_installed_app
    /\ UNCHANGED <<devices, in_use, running_app_pid, logcat_collect_process,
                   logout_tempfile, procs,
                   adb_state, histVars, adb_lock>>

\* `with self.adb_lock:` is entered and the adb process is started.
HostAdbAcquire(t) ==
    /\ th[t].pc = "adb_wait"
    /\ adb_lock = 0
    /\ adb_lock' = t
    /\ th' = [th EXCEPT ![t].pc = "adb_run",
                        ![t].tool = AdbCommands(th[t].op)[
                            Len(AdbCommands(th[t].op)) - th[t].left + 1]]
    /\ UNCHANGED <<regVars, histVars>>

LockKeptOnTimeout(t, out) == IF out = "timeout" THEN t ELSE 0

\* The end of `with self.adb_lock:` in _exec_adb, reached by the return of
\* the try block and by the returns of both except clauses.
LockReleased(t, out) == 0

\* The adb process has ended, timed out or failed: the with block is left.
\* After its last command installApp records the verified package (the
\* output of a timed-out `pm list packages` is empty),
\* startLogcatCollect starts the capture process.
HostAdbRelease(t, out, verified) ==
    /\ th[t].pc = "adb_run"
    /\ adb_lock = t
    /\ adb_lock' = LockReleased(t, out)
    /\ LET d == th[t].cur
           last == th[t].left = 1
           cmd == th[t].tool
           found == verified /\ out # "timeout"
       IN /\ th' = [th EXCEPT ![t] =
                 IF last \/ (cmd = "shell pidof" /\ ~found) THEN IdleThread
                 ELSE [@ EXCEPT !.pc = IF cmd = "shell pidof" THEN "sleep"
                                       ELSE "adb_wait",
                                !.left = IF cmd = "shell pm clear" /\ out = "ok"
                                         THEN @ - 3 ELSE @ - 1,
                                !.tool = "none", !.out = out]]
          /\ running_app_pid' =
                 IF cmd = "shell pidof" /\ found /\ d \in Range(devices[RegHost])
                 THEN [running_app_pid EXCEPT ![d] = 1]
                 ELSE running_app_pid
          /\ last_installed_app' =
                 IF last /\ th[t].op = "installApp" /\ verified /\ out # "timeout"
                    /\ d \in Range(devices[RegHost])
                 THEN [last_installed_app EXCEPT ![d] = Pkg]
                 ELSE last_installed_app
          /\ logcat_collect_process' =
                 IF last /\ th[t].op = "startLogcatCollect"
                    /\ d \in Range(devices[RegHost])
                 THEN [logcat_collect_process EXCEPT ![d] = TRUE]
                 ELSE logcat_collect_process
          /\ logout_tempfile' =
                 IF last /\ th[t].op = "startLogcatCollect"
                    /\ d \in Range(devices[RegHost])
                 THEN [logout_tempfile EXCEPT ![d] = TRUE]
                 ELSE logout_tempfile
          /\ procs' =
                 IF last /\ th[t].op = "startLogcatCollect"
                    /\ d \in Range(devices[RegHost])
                 THEN StartedProcs(d)
                 ELSE procs
    /\ UNCHANGED <<devices, in_use, adb_state, histVars>>

\* runLastInstalledApk: time.sleep(execution_time) is over; kill_apk follows.
HostWaitEnd(t) ==
    /\ th[t].pc = "sleep"
    /\ th' = [th EXCEPT ![t].pc = "adb_wait"]
    /\ UNCHANGED <<regVars, histVars, adb_lock>>

HostFrame == UNCHANGED <<xferVars, orchVars, listVars, pkgVars>>

HLeaseCall ==
    /\ \E t \in Threads, r \in LeaseRequests(1..MaxCount, HostDevices(RegHost)) :
         HostLeaseCall(t, r[1], r[2])
    /\ HostFrame

HRefreshCall == (\E t \in Threads : HostRefreshCall(t)) /\ HostFrame

HEnumDevices == (\E t \in Threads : HostEnumDevices(t)) /\ HostFrame

HEnumGetprop == (\E t \in Threads : HostEnumGetprop(t)) /\ HostFrame

HEnumEnd == (\E t \in Threads : HostEnumEnd(t)) /\ HostFrame

HLeaseScan == (\E t \in Threads : HostLeaseScan(t)) /\ HostFrame

HLeaseMark == (\E t \in Threads : HostLeaseMark(t)) /\ HostFrame

HLeaseReturn == (\E t \in Threads : HostLeaseReturn(t)) /\ HostFrame

HUnlock ==
    /\ \E t \in Threads, did \in HostDevices(RegHost) \cup {ALL} : HostUnlock(t, did)
    /\ HostFrame

HDeviceCall ==
    /\ \E t \in Threads, d \in HostDevices(RegHost), op \in DeviceOps :
         HostDeviceCall(t, d, op)
    /\ HostFrame

HAdbAcquire == (\E t \in Threads : HostAdbAcquire(t)) /\ HostFrame

HAdbRelease ==
    /\ \E t \in Threads, out \in ToolOutcomes, verified \in BOOLEAN :
         HostAdbRelease(t, out, verified)
    /\ HostFrame

NextLease ==
    \/ HLeaseCall \/ HRefreshCall \/ HEnumDevices \/ HEnumGetprop \/ HEnumEnd
    \/ HLeaseScan \/ HLeaseMark \/ HLeaseReturn \/ HUnlock

SpecLease == InitReg /\ [][NextLease]_vars

NextAdb ==
    \/ HRefreshCall \/ HEnumDevices \/ HEnumGetprop \/ HEnumEnd
    \/ HDeviceCall \/ HAdbAcquire \/ HAdbRelease

SpecAdb == InitReg /\ [][NextAdb]_vars

\* C4: two lease calls served concurrently on one host never both return
\* the same device id: no device is granted to a second call while the grant
\* of a first call has not been released.
C4_ConcurrentLeasesExclusive ==
    \A d \in HostDevices(RegHost) : ~(live[d] > 1)

\* C10: at most one device-tool invocation is in progress on a host at any
\* time, the enumeration commands devices/getprop included.
C10_OneToolInvocation ==
    Cardinality(ToolsRunning) <= 1

(***************************************************************************)
(* SpecXfer: upload_file of a payload, then pull_file of the stored file.  *)
(* Bytes are numbers; the alphabet has an ASCII byte, the lead byte 0xC3   *)
(* of a two-byte UTF-8 sequence and the continuation byte 0xA9.            *)
(***************************************************************************)
Bytes == {65, 169, 195}

RECURSIVE SeqsUpTo(_, _)
SeqsUpTo(S, n) ==
    IF n = 0 THEN {<<>>}
    ELSE LET shorter == SeqsUpTo(S, n - 1)
         IN shorter \cup {Append(q, x) : q \in {r \in shorter : Len(r) = n - 1}, x \in S}

\* f.read(CHUNK_SIZE) until it returns nothing: the chunks of a byte string.
RECURSIVE Chunks(_)
Chunks(b) ==
    IF Len(b) = 0 THEN <<>>
    ELSE IF Len(b) <= CHUNK_SIZE THEN <<b>>
    ELSE <<SubSeq(b, 1, CHUNK_SIZE)>> \o Chunks(SubSeq(b, CHUNK_SIZE + 1, Len(b)))

IsAscii(b) == b < 128
IsContinuation(b) == b >= 128 /\ b < 192
IsLead2(b) == b >= 194 /\ b < 224

\* bytes.decode("utf-8", "ignore"): the code points of the valid sequences;
\* a byte that starts no valid sequence is dropped.
RECURSIVE DecodeUtf8Ignore(_)
DecodeUtf8Ignore(b) ==
    IF Len(b) = 0 THEN <<>>
    ELSE IF IsAscii(b[1]) THEN <<b[1]>> \o DecodeUtf8Ignore(Tail(b))
    ELSE IF IsLead2(b[1]) /\ Len(b) >= 2 /\ IsContinuation(b[2])
         THEN <<(b[1] - 192) * 64 + (b[2] - 128)>> \o DecodeUtf8Ignore(Tail(Tail(b)))
    ELSE DecodeUtf8Ignore(Tail(b))

\* The UTF-8 bytes of a text of code points below 0x800.
RECURSIVE EncodeUtf8(_)
EncodeUtf8(text) ==
    IF Len(text) = 0 THEN <<>>
    ELSE (IF text[1] < 128 THEN <<text[1]>>
          ELSE <<192 + (text[1] \div 64), 128 + (text[1] % 64)>>)
         \o EncodeUtf8(Tail(text))

InitXfer ==
    /\ InitRegistry
    /\ InitHist
    /\ InitThreads
    /\ InitNoRequest
    /\ adb_state = [d \in DeviceIds |-> "device"]
    /\ xfer_pc = "start"
    /\ payload \in SeqsUpTo(Bytes, MaxPayload)
    /\ stream = <<>>
    /\ server_file = NoFile
    /\ full_response = <<>>
    /\ xfer_result = NoResult

XferFrame == UNCHANGED <<regVars, histVars, thrVars, orchVars, listVars, pkgVars>>

\* upload_file calls stub.UploadFile(file_chunk_generator()); the servicer
\* takes next(request_iterator), which raises StopIteration on a stream
\* without messages (the RPC fails and upload_file returns False), else it
\* opens the file and writes the first chunk.
UploadFileFirst ==
    /\ xfer_pc = "start"
    /\ LET sent == Chunks(payload)
       IN IF Len(sent) = 0
          THEN /\ xfer_pc' = "uploaded"
               /\ xfer_result' = [xfer_result EXCEPT !.upload = "failed"]
               /\ UNCHANGED <<stream, server_file>>
          ELSE /\ xfer_pc' = "uploading"
               /\ stream' = Tail(sent)
               /\ server_file' = Head(sent)
               /\ UNCHANGED xfer_result
    /\ UNCHANGED <<payload, full_response>>
    /\ XferFrame

\* for request in request_iterator: f.write(request.chunk_data)
UploadFileNext ==
    /\ xfer_pc = "uploading"
    /\ Len(stream) > 0
    /\ server_file' = server_file \o Head(stream)
    /\ stream' = Tail(stream)
    /\ UNCHANGED <<xfer_pc, payload, full_response, xfer_result>>
    /\ XferFrame

\* The stream is exhausted: FileUploadResponse(message="OK").
UploadFileDone ==
    /\ xfer_pc = "uploading"
    /\ Len(stream) = 0
    /\ xfer_pc' = "uploaded"
    /\ xfer_result' = [xfer_result EXCEPT !.upload = "ok"]
    /\ UNCHANGED <<payload, stream, server_file, full_response>>
    /\ XferFrame

\* pull_file calls stub.PullFile; the servicer answers NOT_FOUND when the
\* file does not exist, else it streams the file in chunks.
PullFileOpen ==
    /\ xfer_pc = "uploaded"
    /\ IF server_file = NoFile
       THEN /\ xfer_pc' = "pulled"
            /\ xfer_result' = [xfer_result EXCEPT !.pull_error = TRUE]
            /\ UNCHANGED stream
       ELSE /\ xfer_pc' = "pulling"
            /\ stream' = Chunks(server_file)
            /\ UNCHANGED xfer_result
    /\ UNCHANGED <<payload, server_file, full_response>>
    /\ XferFrame

\* for chunk in response_stream: full_response += chunk.chunk_data
PullFileNext ==
    /\ xfer_pc = "pulling"
    /\ Len(stream) > 0
    /\ full_response' = full_response \o Head(stream)
    /\ stream' = Tail(stream)
    /\ UNCHANGED <<xfer_pc, payload, server_file, xfer_result>>
    /\ XferFrame

\* return False, full_response.decode("utf-8", "ignore")
PullFileDone ==
    /\ xfer_pc = "pulling"
    /\ Len(stream) = 0
    /\ xfer_pc' = "pulled"
    /\ xfer_result' = [xfer_result EXCEPT !.pull = DecodeUtf8Ignore(full_response)]
    /\ UNCHANGED <<payload, stream, server_file, full_response>>
    /\ XferFrame

NextXfer ==
    \/ UploadFileFirst \/ UploadFileNext \/ UploadFileDone
    \/ PullFileOpen \/ PullFileNext \/ PullFileDone

SpecXfer == InitXfer /\ [][NextXfer]_vars

\* C9: uploading a byte sequence and then pulling the stored file returns
\* exactly the original bytes, for payloads shorter than a chunk, longer
\* than a chunk and of length zero.
C9_UploadPullRoundTrip ==
    xfer_pc = "pulled" =>
        /\ xfer_result.upload = "ok"
        /\ ~xfer_result.pull_error
        /\ EncodeUtf8(xfer_result.pull) = payload

(***************************************************************************)
(* Spec: the orchestrated run. Every call to a host has an outcome:        *)
(*   "ok"    the handler runs and answers from the state it finds;         *)
(*   "fail"  the handler meets a failure of the device tool or of the      *)
(*           host and answers with an error;                               *)
(*   "exc"   the call raises in the client (host unreachable), the         *)
(*           handler does not run.                                         *)
(* A handler acts on the record of one device, so it is one step. Tasks    *)
(* share one event loop: a task keeps the loop until it awaits.            *)
(***************************************************************************)
Outcomes == {"ok", "fail", "exc"}
PipelineStages == {"start_logcat", "install", "run", "kill", "uninstall"}
HostOrder == <<"A", "B">>

Finished(d) == task[d].pc \in {"none", "done", "raised"}

\* One more forced failure on the run of device d, at the given stage.
Inject(d, stage) ==
    [injected EXCEPT ![d] = [n |-> @.n + 1,
                             stage |-> IF @.n = 0 THEN stage ELSE "many"]]

\* A call on device d may have the outcome o.
MayFail(d, o) == o # "ok" => injected[d].n < MaxFailures

InjectIf(d, cond, stage) == IF cond THEN Inject(d, stage) ELSE injected

InRegistry(d) == d \in Range(devices[HostOf(d)])

\* executeApp: devs_per_server is built from request.devices.
ReqStart(devs) ==
    /\ req.pc \in {"idle", "responded", "failed"}
    /\ req.n < MaxRuns
    /\ \A d \in DeviceIds : Finished(d)
    /\ req' = [pc |-> "lease", devs |-> devs, n |-> req.n + 1,
               todo |-> SelectSeq(HostOrder, LAMBDA h : devs \cap HostDevices(h) # {}),
               locked |-> {}, cause |-> "none"]
    /\ return_dict' = [d \in DeviceIds |-> "none"]
    /\ task' = [d \in DeviceIds |-> NoTask]
    /\ UNCHANGED <<regVars, histVars, injected, loop_owner>>

\* After the lease loop: HTTP 503 when nothing was locked.
AfterLease(todo, locked) ==
    IF Len(todo) > 0 THEN "lease" ELSE IF locked = {} THEN "failed" ELSE "store"

\* The devices a lease response adds to locked_devices: none on an error.
LockedBy(response) == IF response.error # "" THEN {} ELSE Range(response.result)

\* grpc_clients[server_name].get_free_device(device_list=...) for the next
\* host; a raised call (the host is unreachable, or grpc_clients has no
\* entry of that name) leaves executeApp from inside the loop.
ReqLease(o, enum) ==
    /\ req.pc = "lease"
    /\ LET h == Head(req.todo)
       IN IF o = "exc"
          THEN /\ req' = [req EXCEPT !.pc = "failed", !.cause = "lease"]
               /\ UNCHANGED <<regVars, histVars>>
          ELSE /\ getFreeDevices(h, 1, req.devs \cap HostDevices(h), enum)
               /\ req' = [req EXCEPT
                      !.todo = Tail(@),
                      !.locked = @ \cup LockedBy(last_op'),
                      !.pc = AfterLease(Tail(req.todo),
                                        req.locked \cup LockedBy(last_op')),
                      !.cause = IF AfterLease(Tail(req.todo),
                                      req.locked \cup LockedBy(last_op')) = "failed"
                                THEN "nolock" ELSE @]
    /\ UNCHANGED <<return_dict, task, injected, loop_owner>>

\* The uploaded file is copied to a temporary file; when that fails every
\* locked device is unlocked (a raised unlock is logged) and the request
\* ends with HTTP 500.
ReqStore(ok, unreachable) ==
    /\ req.pc = "store"
    /\ IF ok
       THEN /\ req' = [req EXCEPT !.pc = "upload",
                         !.todo = SelectSeq(HostOrder,
                                     LAMBDA h : req.locked \cap HostDevices(h) # {})]
            /\ UNCHANGED <<regVars, histVars>>
       ELSE /\ req' = [req EXCEPT !.pc = "failed", !.cause = "store"]
            /\ in_use' = [d \in DeviceIds |->
                   IF d \in req.locked /\ HostOf(d) \notin unreachable /\ InRegistry(d)
                   THEN FALSE ELSE in_use[d]]
            /\ outstanding' = Cleared(outstanding,
                   {d \in req.locked : HostOf(d) \notin unreachable})
            /\ live' = Cleared(live, {d \in req.locked : HostOf(d) \notin unreachable})
            /\ UNCHANGED <<devices, last_installed_app, running_app_pid,
                           logcat_collect_process, logout_tempfile, procs,
                           adb_state, last_op>>
    /\ UNCHANGED <<return_dict, task, injected, loop_owner>>

\* grpc_clients[server_name].upload_app(stored_file) for the next host with
\* locked devices: on an error every device of the host gets the outcome
\* "File Upload to grpc backend failed!", else one execute_app coroutine is
\* created per device. After the last host, asyncio.gather schedules them.
\* A raised upload leaves executeApp (HTTP 500) before any coroutine runs.
ReqUpload(o) ==
    /\ req.pc = "upload"
    /\ LET h == Head(req.todo)
           devs == req.locked \cap HostDevices(h)
           last == Len(req.todo) = 1
       IN IF o = "exc"
          THEN /\ req' = [req EXCEPT !.pc = "failed", !.cause = "upload"]
               /\ task' = [d \in DeviceIds |-> NoTask]
               /\ UNCHANGED return_dict
          ELSE /\ req' = [req EXCEPT !.todo = Tail(@),
                                     !.pc = IF last THEN "gather" ELSE "upload"]
               /\ return_dict' = [d \in DeviceIds |->
                      IF d \in devs /\ o = "fail" THEN "upload_failed"
                      ELSE return_dict[d]]
               /\ task' = [d \in DeviceIds |->
                      IF d \in devs /\ o = "ok" THEN [NoTask EXCEPT !.pc = "ready"]
                      ELSE task[d]]
    /\ UNCHANGED <<regVars, histVars, injected, loop_owner>>

\* await asyncio.gather(*exec_funcs) has its results, or the first exception
\* of a task: the outcomes are put into return_dict and returned, or the
\* exception leaves executeApp (HTTP 500) while the other tasks go on.
ReqRespond ==
    /\ req.pc = "gather"
    /\ loop_owner = 0
    /\ \/ /\ \A d \in DeviceIds : task[d].pc \in {"none", "done"}
          /\ req' = [req EXCEPT !.pc = "responded"]
          /\ return_dict' = [d \in DeviceIds |->
                 IF task[d].pc = "done" THEN "outcome" ELSE return_dict[d]]
       \/ /\ \E d \in DeviceIds : task[d].pc = "raised"
          /\ req' = [req EXCEPT !.pc = "failed", !.cause = "task"]
          /\ UNCHANGED return_dict
    /\ UNCHANGED <<regVars, histVars, task, injected, loop_owner>>

(***************************************************************************)
(* The handlers behind the calls of execute_app, as functions of the       *)
(* outcome and of the device record.                                       *)
(***************************************************************************)
\* Device.stop_collect_logcat: the process is forgotten once terminate and
\* wait went through; a failing terminate leaves the record as it is.
StopKeepsProcess(proc, o) == proc

StoppedProcess(proc, o) == IF o = "ok" THEN FALSE ELSE proc

StopIgnoresNoSession(d, o) ==
    IF ~InRegistry(d) THEN "Logcat stop failed, device not available"
    ELSE IF o = "fail" THEN "Logcat stop failed, no output file!"
    ELSE ""

\* stopLogcatCollect answers with an error when the device has no capture
\* process or stopping failed.
StopLogcatError(d, o) ==
    IF ~InRegistry(d) THEN "Logcat stop failed, device not available"
    ELSE IF ~logcat_collect_process[d] \/ ~logout_tempfile[d]
         THEN "Logcat stop failed, no output file!"
    ELSE IF o = "fail" THEN "Logcat stop failed, no output file!"
    ELSE ""

\* uninstallApp: Device.uninstall_apk() forgets last_installed_app first.
UninstallError(d, o) ==
    IF ~InRegistry(d) THEN "Uninstall app failed, device not available"
    ELSE IF last_installed_app[d] = None THEN "Uninstall Failed!"
    ELSE IF o = "fail" THEN "uninstallApp failed"
    ELSE ""

\* runLastInstalledApk: run_apk, is_running, the wait, kill_apk.
RunError(d, o) ==
    IF ~InRegistry(d) THEN "runLastInstalledApk failed, device not available"
    ELSE IF last_installed_app[d] = None THEN "No App specified"
    ELSE IF o = "no_pid" THEN "App not running, startup fail!"
    ELSE IF o = "kill_fail" THEN "Killing failed after execution"
    ELSE ""

RunStepsKillFirst(d, o) ==
    IF o = "exc" \/ RunError(d, "ok") # "" THEN <<"launch">>
    ELSE IF o = "no_pid" THEN <<"launch", "pid">>
    ELSE <<"launch", "pid", "kill", "wait">>

\* runLastInstalledApk: the steps of the run the handler gets to.
RunSteps(d, o) ==
    IF o = "exc" \/ RunError(d, "ok") # "" THEN <<"launch">>
    ELSE IF o = "no_pid" THEN <<"launch", "pid">>
    ELSE <<"launch", "pid", "wait", "kill">>

(***************************************************************************)
(* execute_app, one task per leased device.                                *)
(***************************************************************************)
\* The task invokes the stages cs.
Invoke(t, cs) == [t EXCEPT !.calls = @ \o cs]

FailedSkipsFinally(t, stage, msg) ==
    [t EXCEPT !.result = msg, !.failed = stage, !.pc = "exit_uninstall"]

\* A pipeline stage answered with an error: exec_result.result is set and
\* `return exec_result` inside the try leads to the finally block.
Failed(t, stage, msg) ==
    [t EXCEPT !.result = msg, !.failed = stage, !.pc = "fin_stop"]

\* A pipeline call raised: the exception propagates through the finally block.
Raised(t, stage) == [t EXCEPT !.exc = TRUE, !.failed = stage, !.pc = "fin_stop"]

PullSkipsAttach(t) == [t EXCEPT !.pc = "exit_uninstall"]

StopFailedBlocks(t) == [t EXCEPT !.pc = "blocked"]

StopFailedKeepsOutcome(t) == [t EXCEPT !.exc = FALSE, !.pc = "exit_uninstall"]

\* finally: stop_logcat_collect answered with an error or without a file:
\* exec_result.error = True, the message is set and the block returns.
StopFailed(t) ==
    [t EXCEPT !.error = TRUE, !.result = "Error stopping logcat",
              !.exc = FALSE, !.pc = "exit_uninstall"]

\* The pulled log is written to a temporary file: exec_result.logcat_file.
Attached(t) == [t EXCEPT !.logcat_file = TRUE, !.pc = "exit_uninstall"]

\* with DeviceUsage(...): try: grpc_client.start_logcat_collect(devid)
\* The coroutines created by the upload loop start once gather has
\* scheduled them.
TaskStartLogcat(d, o) ==
    /\ task[d].pc = "ready"
    /\ req.pc # "upload"
    /\ MayFail(d, o)
    /\ loop_owner = 0
    /\ loop_owner' = d
    /\ task' = [task EXCEPT ![d] = Invoke(
           IF o = "exc" THEN Raised(@, "start_logcat")
           ELSE IF o = "fail" \/ ~InRegistry(d)
                THEN Failed(@, "start_logcat", "Error start_logcat_collect")
                ELSE [@ EXCEPT !.pc = "install"], <<"start_logcat">>)]
    /\ logcat_collect_process' =
           IF o = "ok" /\ InRegistry(d)
           THEN [logcat_collect_process EXCEPT ![d] = TRUE]
           ELSE logcat_collect_process
    /\ logout_tempfile' =
           IF o # "exc" /\ InRegistry(d)
           THEN [logout_tempfile EXCEPT ![d] = (o = "ok")]
           ELSE logout_tempfile
    /\ procs' = IF o = "ok" /\ InRegistry(d) THEN StartedProcs(d) ELSE procs
    /\ injected' = InjectIf(d, o # "ok", "start_logcat")
    /\ UNCHANGED <<devices, in_use, last_installed_app, running_app_pid, adb_state,
                   histVars, req, return_dict>>

\* grpc_client.install_app(devid, stored_file, sign_app); on success the
\* task awaits asyncio.to_thread(grpc_client.run_last_installed_apk, ...).
TaskInstall(d, o) ==
    /\ task[d].pc = "install"
    /\ MayFail(d, o)
    /\ loop_owner = d
    /\ task' = [task EXCEPT ![d] = Invoke(
           IF o = "exc" THEN Raised(@, "install")
           ELSE IF o = "fail" \/ ~InRegistry(d)
                THEN Failed(@, "install", "Error install_app")
                ELSE [@ EXCEPT !.pc = "run_wait"], <<"install">>)]
    /\ loop_owner' = IF o = "ok" /\ InRegistry(d) THEN 0 ELSE d
    /\ last_installed_app' =
           IF o = "ok" /\ InRegistry(d)
           THEN [last_installed_app EXCEPT ![d] = Pkg]
           ELSE last_installed_app
    /\ injected' = InjectIf(d, o # "ok", "install")
    /\ UNCHANGED <<devices, in_use, running_app_pid, logcat_collect_process,
                   logout_tempfile, procs,
                   adb_state, histVars, req, return_dict>>

\* The offloaded run_last_installed_apk call is served by the host.
HostRun(d, o) ==
    /\ task[d].pc = "run_wait"
    /\ MayFail(d, o)
    /\ LET err == IF o = "exc" THEN "EXC" ELSE RunError(d, o)
       IN /\ task' = [task EXCEPT ![d] = Invoke(
                 [@ EXCEPT !.pc = "run_done", !.resp = err], RunSteps(d, o))]
          /\ running_app_pid' =
                 IF o \in {"ok", "kill_fail"} /\ RunError(d, "ok") = ""
                 THEN [running_app_pid EXCEPT ![d] = 1]
                 ELSE running_app_pid
          /\ injected' =
                 IF o = "exc" THEN Inject(d, "run")
                 ELSE IF RunError(d, "ok") # "" \/ o = "ok" THEN injected
                 ELSE IF o = "no_pid" THEN Inject(d, "run")
                 ELSE Inject(d, "kill")
    /\ UNCHANGED <<devices, in_use, last_installed_app, logcat_collect_process,
                   logout_tempfile, procs,
                   adb_state, histVars, req, return_dict, loop_owner>>

\* The task resumes with the answer of the run; without an error it awaits
\* asyncio.to_thread(grpc_client.uninstall_app, devid).
TaskRunResume(d) ==
    /\ task[d].pc = "run_done"
    /\ loop_owner = 0
    /\ task' = [task EXCEPT ![d] =
           IF task[d].resp = "EXC"
           THEN Raised([@ EXCEPT !.resp = ""], "run")
           ELSE IF task[d].resp # ""
                THEN Failed([@ EXCEPT !.resp = ""],
                            IF task[d].resp = "Killing failed after execution"
                            THEN "kill" ELSE "run",
                            task[d].resp)
                ELSE [@ EXCEPT !.pc = "uninstall_wait"]]
    /\ loop_owner' = IF task[d].resp # "" THEN d ELSE 0
    /\ UNCHANGED <<regVars, histVars, req, return_dict, injected>>

\* The offloaded uninstall_app call is served by the host.
HostUninstall(d, o) ==
    /\ task[d].pc = "uninstall_wait"
    /\ MayFail(d, o)
    /\ o = "fail" => UninstallError(d, "fail") # UninstallError(d, "ok")
    /\ task' = [task EXCEPT ![d] = Invoke(
           [@ EXCEPT !.pc = "uninstall_done",
                     !.resp = IF o = "exc" THEN "EXC" ELSE UninstallError(d, o)],
           <<"uninstall">>)]
    /\ last_installed_app' =
           IF o # "exc" /\ InRegistry(d)
           THEN [last_installed_app EXCEPT ![d] = None]
           ELSE last_installed_app
    /\ injected' = InjectIf(d, o # "ok", "uninstall")
    /\ UNCHANGED <<devices, in_use, running_app_pid, logcat_collect_process,
                   logout_tempfile, procs,
                   adb_state, histVars, req, return_dict, loop_owner>>

\* The task resumes with the answer of the uninstall; without an error
\* exec_result.error = False. The finally block follows in every case.
TaskUninstallResume(d) ==
    /\ task[d].pc = "uninstall_done"
    /\ loop_owner = 0
    /\ loop_owner' = d
    /\ task' = [task EXCEPT ![d] =
           IF task[d].resp = "EXC"
           THEN Raised([@ EXCEPT !.resp = ""], "uninstall")
           ELSE IF task[d].resp # ""
                THEN Failed([@ EXCEPT !.resp = ""], "uninstall", "Error uninstall_app")
                ELSE [@ EXCEPT !.error = FALSE, !.pc = "fin_stop"]]
    /\ UNCHANGED <<regVars, histVars, req, return_dict, injected>>

\* finally: grpc_client.stop_logcat_collect(devid); on an error the block
\* returns exec_result, which also ends a propagating exception.
TaskFinStop(d, o) ==
    /\ task[d].pc = "fin_stop"
    /\ MayFail(d, o)
    /\ loop_owner = d
    /\ o = "fail" => StopLogcatError(d, "fail") # StopLogcatError(d, "ok")
    /\ task' = [task EXCEPT ![d] = Invoke(
           IF o = "exc" THEN [@ EXCEPT !.exc = TRUE, !.pc = "exit_uninstall"]
           ELSE IF StopLogcatError(d, o) # ""
                THEN StopFailed(@)
                ELSE [@ EXCEPT !.pc = "fin_pull"], <<"stop_logcat">>)]
    /\ logcat_collect_process' =
           IF o # "exc" /\ StopLogcatError(d, o) = ""
           THEN [logcat_collect_process EXCEPT ![d] = StoppedProcess(@, o)]
           ELSE logcat_collect_process
    /\ logout_tempfile' =
           IF o # "exc" /\ StopLogcatError(d, o) = ""
           THEN [logout_tempfile EXCEPT ![d] = StoppedProcess(@, o)]
           ELSE logout_tempfile
    /\ procs' = IF o = "ok" /\ StopLogcatError(d, o) = ""
                THEN EndedProcs({d}) ELSE procs
    /\ injected' = InjectIf(d, o # "ok", "stop_logcat")
    /\ UNCHANGED <<devices, in_use, last_installed_app, running_app_pid, adb_state,
                   histVars, req, return_dict, loop_owner>>

\* The error text of a failed pull_file ("<code>, <details>" of the
\* RpcError); the err of the answer of stop_logcat_collect that had no error.
PullError == "StatusCode, details"
NoError == "None"

\* finally: pull_file reported an error: the message is formatted with
\* response.err, the err of the answer of stop_logcat_collect.
PullFailed(t, response_err, result_err) ==
    [t EXCEPT !.error = TRUE, !.result = "Error pulling logcat",
              !.detail = response_err, !.exc = FALSE, !.pc = "exit_uninstall"]

\* finally: grpc_client.pull_file(Path(response.ret)); the log is stored in
\* a temporary file and attached.
TaskFinPull(d, o) ==
    /\ task[d].pc = "fin_pull"
    /\ MayFail(d, o)
    /\ loop_owner = d
    /\ task' = [task EXCEPT ![d] = Invoke(
           IF o = "exc" THEN [@ EXCEPT !.exc = TRUE, !.pc = "exit_uninstall"]
           ELSE IF o = "fail"
                THEN PullFailed(@, NoError, PullError)
                ELSE Attached(@), <<"pull">>)]
    /\ injected' = InjectIf(d, o # "ok", "pull")
    /\ UNCHANGED <<regVars, histVars, req, return_dict, loop_owner>>

ExitStepReraises(t, o, step) ==
    IF o = "exc" THEN [t EXCEPT !.exc = TRUE, !.pc = "raised"]
    ELSE [t EXCEPT !.pc = step]

\* DeviceUsage.__exit__: the answer of a cleanup operation is not looked at
\* and an exception of it is logged; the loop goes on with the next one.
ExitStep(t, o, step) == [t EXCEPT !.pc = step]

\* DeviceUsage.__exit__: grpc_client.uninstall_app; a raised call is logged.
TaskExitUninstall(d, o) ==
    /\ task[d].pc = "exit_uninstall"
    /\ MayFail(d, o)
    /\ loop_owner = d
    /\ task' = [task EXCEPT ![d] =
           Invoke(ExitStep(@, o, "exit_stop"), <<"exit_uninstall">>)]
    /\ last_installed_app' =
           IF o # "exc" /\ InRegistry(d)
           THEN [last_installed_app EXCEPT ![d] = None]
           ELSE last_installed_app
    /\ injected' = InjectIf(d, o # "ok", "exit")
    /\ UNCHANGED <<devices, in_use, running_app_pid, logcat_collect_process,
                   logout_tempfile, procs,
                   adb_state, histVars, req, return_dict, loop_owner>>

\* DeviceUsage.__exit__: grpc_client.stop_logcat_collect
TaskExitStop(d, o) ==
    /\ task[d].pc = "exit_stop"
    /\ MayFail(d, o)
    /\ loop_owner = d
    /\ o = "fail" => StopLogcatError(d, "fail") # StopLogcatError(d, "ok")
    /\ task' = [task EXCEPT ![d] =
           Invoke(ExitStep(@, o, "exit_unlock"), <<"exit_stop">>)]
    /\ logcat_collect_process' =
           IF o # "exc" /\ StopLogcatError(d, o) = ""
           THEN [logcat_collect_process EXCEPT ![d] = StoppedProcess(@, o)]
           ELSE logcat_collect_process
    /\ logout_tempfile' =
           IF o # "exc" /\ StopLogcatError(d, o) = ""
           THEN [logout_tempfile EXCEPT ![d] = StoppedProcess(@, o)]
           ELSE logout_tempfile
    /\ procs' = IF o = "ok" /\ StopLogcatError(d, o) = ""
                THEN EndedProcs({d}) ELSE procs
    /\ injected' = InjectIf(d, o # "ok", "exit")
    /\ UNCHANGED <<devices, in_use, last_installed_app, running_app_pid, adb_state,
                   histVars, req, return_dict, loop_owner>>

\* DeviceUsage.__exit__: grpc_client.unlock_device; then execute_app returns
\* exec_result or lets the propagating exception out.
TaskExitUnlock(d, o) ==
    /\ task[d].pc = "exit_unlock"
    /\ MayFail(d, o)
    /\ loop_owner = d
    /\ loop_owner' = 0
    /\ task' = [task EXCEPT ![d] =
           Invoke([@ EXCEPT !.pc = IF task[d].exc THEN "raised" ELSE "done"],
                  <<"exit_unlock">>)]
    /\ IF o = "exc"
       THEN UNCHANGED <<regVars, histVars>>
       ELSE unlockDevice(HostOf(d), d)
    /\ injected' = InjectIf(d, o # "ok", "exit")
    /\ UNCHANGED <<req, return_dict>>

OrchFrame == UNCHANGED <<thrVars, xferVars, listVars, pkgVars>>

\* request.devices: the first k devices, on alternating hosts.
Requests == {1..k : k \in 1..Min(MaxRequest, NumDevices)}

ExecuteAppStart == (\E devs \in Requests : ReqStart(devs)) /\ OrchFrame

ExecuteAppLease ==
    /\ \E o \in {"ok", "exc"} :
         \E enum \in IF o = "ok" /\ req.pc = "lease"
                        /\ Len(devices[Head(req.todo)]) = 0
                     THEN {"ok", "timeout", "error"} ELSE {"ok"} :
             ReqLease(o, enum)
    /\ OrchFrame

ExecuteAppStore ==
    /\ \E ok \in BOOLEAN :
         \E unreachable \in IF ok THEN {{}} ELSE SUBSET Hosts : ReqStore(ok, unreachable)
    /\ OrchFrame

ExecuteAppUpload == (\E o \in Outcomes : ReqUpload(o)) /\ OrchFrame

ExecuteAppRespond == ReqRespond /\ OrchFrame

StartLogcat == (\E d \in DeviceIds, o \in Outcomes : TaskStartLogcat(d, o)) /\ OrchFrame

Install == (\E d \in DeviceIds, o \in Outcomes : TaskInstall(d, o)) /\ OrchFrame

RunOnHost ==
    /\ \E d \in DeviceIds, o \in {"ok", "no_pid", "kill_fail", "exc"} : HostRun(d, o)
    /\ OrchFrame

RunResume == (\E d \in DeviceIds : TaskRunResume(d)) /\ OrchFrame

UninstallOnHost == (\E d \in DeviceIds, o \in Outcomes : HostUninstall(d, o)) /\ OrchFrame

UninstallResume == (\E d \in DeviceIds : TaskUninstallResume(d)) /\ OrchFrame

FinStop == (\E d \in DeviceIds, o \in Outcomes : TaskFinStop(d, o)) /\ OrchFrame

FinPull == (\E d \in DeviceIds, o \in Outcomes : TaskFinPull(d, o)) /\ OrchFrame

ExitUninstall ==
    (\E d \in DeviceIds, o \in {"ok", "exc"} : TaskExitUninstall(d, o)) /\ OrchFrame

ExitStop == (\E d \in DeviceIds, o \in Outcomes : TaskExitStop(d, o)) /\ OrchFrame

ExitUnlock ==
    (\E d \in DeviceIds, o \in {"ok", "exc"} : TaskExitUnlock(d, o)) /\ OrchFrame

Next ==
    \/ ExecuteAppStart \/ ExecuteAppLease \/ ExecuteAppStore \/ ExecuteAppUpload
    \/ ExecuteAppRespond
    \/ StartLogcat \/ Install \/ RunOnHost \/ RunResume
    \/ UninstallOnHost \/ UninstallResume
    \/ FinStop \/ FinPull \/ ExitUninstall \/ ExitStop \/ ExitUnlock

Init == InitReg

Spec == Init /\ [][Next]_vars

\* C1: after an orchestrated run has completed (every device succeeded, a
\* pipeline failed, or the upload to a host failed), every device the call
\* leased has in_use = false.
C1_RunReleasesLeases ==
    (/\ \/ req.pc = "responded"
        \/ req.pc = "failed" /\ \E d \in DeviceIds : task[d].pc = "raised"
     /\ \A d \in DeviceIds : Finished(d))
        => \A d \in req.locked : ~in_use[d]

\* C2: when a failure is forced at one of the five pipeline stages of
\* execute_app, then once execute_app has returned the lease of the device
\* is released and the device has no logcat capture process.
C2_StageFailureCleansUp ==
    \A d \in DeviceIds :
        (/\ task[d].pc \in {"done", "raised"}
         /\ injected[d].n = 1
         /\ injected[d].stage \in PipelineStages)
            => ~in_use[d] /\ ~logcat_collect_process[d]

\* execute_app has returned after a forced failure of the kill.
C2_Witness ==
    \E d \in DeviceIds :
        /\ task[d].pc = "done"
        /\ injected[d] = [n |-> 1, stage |-> "kill"]
        /\ task[d].result = "Killing failed after execution"
        /\ ~in_use[d]

\* C6: a registry device with in_use = false has no logcat capture process
\* and last_installed_app = None, also after a cleanup step has failed.
C6_FreeDeviceIsClean ==
    \A d \in DeviceIds :
        (InRegistry(d) /\ ~in_use[d])
            => ~logcat_collect_process[d] /\ last_installed_app[d] = None

(***************************************************************************)
(* SpecList: getdevices. The hosts are asked one after the other in the    *)
(* order of grpc_clients; a host answers with its registry after a         *)
(* refresh, answers with an error, or the call raises.                     *)
(***************************************************************************)
\* The loop over json.loads(ret.ret) of one host: acc is the merged result,
\* returned tells that `return DeviceResponse(devices=devices)` was reached.
RECURSIVE MergeListed(_, _, _, _, _)
MergeListed(reg, i, acc, amount, ids) ==
    IF i > Len(reg) THEN [devices |-> acc, returned |-> FALSE]
    ELSE IF ids # {}
         THEN MergeListed(reg, i + 1,
                          IF reg[i] \in ids THEN acc \cup {reg[i]} ELSE acc,
                          amount, ids)
         ELSE IF Cardinality(acc) >= amount
              THEN [devices |-> acc, returned |-> TRUE]
              ELSE MergeListed(reg, i + 1, acc \cup {reg[i]}, amount, ids)

\* The queries of getdevices: an amount, or a set of requested ids.
ListQueries ==
    {<<a, {}>> : a \in 1..MaxCount} \cup {<<1, ids>> : ids \in (SUBSET DeviceIds) \ {{}}}

\* getdevices is called.
ListStart(amount, ids) ==
    /\ listing.pc \in {"idle", "returned", "failed"}
    /\ listing' = [pc |-> "hosts", todo |-> HostOrder, amount |-> amount,
                   ids |-> ids, devices |-> {}, answered |-> {}]
    /\ UNCHANGED <<regVars, histVars>>

\* client.get_adb_devices() of the next host and the merge of its answer.
\* A raised call is caught around the whole loop: HTTP 500.
ListHost(o) ==
    /\ listing.pc = "hosts"
    /\ LET h == Head(listing.todo)
           last == Len(listing.todo) = 1
       IN IF o = "exc"
          THEN /\ listing' = [listing EXCEPT !.pc = "failed"]
               /\ UNCHANGED <<regVars, histVars>>
          ELSE /\ getAdbDevices(h, o)
               /\ LET m == MergeListed(devices'[h], 1, listing.devices,
                                       listing.amount, listing.ids)
                  IN listing' =
                       IF o = "error"
                       THEN [listing EXCEPT !.todo = Tail(@),
                                            !.pc = IF last THEN "returned" ELSE "hosts"]
                       ELSE [listing EXCEPT
                               !.todo = Tail(@),
                               !.devices = m.devices,
                               !.answered = @ \cup {h},
                               !.pc = IF last \/ m.returned THEN "returned"
                                      ELSE "hosts"]

ListFrame == UNCHANGED <<thrVars, xferVars, orchVars, pkgVars>>

ListAdbChange ==
    /\ \E d \in DeviceIds, s \in AdbStates : AdbChange(d, s)
    /\ ListFrame
    /\ UNCHANGED listVars

GetDevicesStart == (\E q \in ListQueries : ListStart(q[1], q[2])) /\ ListFrame

GetDevicesHost ==
    (\E o \in {"ok", "timeout", "error", "exc"} : ListHost(o)) /\ ListFrame

NextList == ListAdbChange \/ GetDevicesStart \/ GetDevicesHost

SpecList == InitReg /\ [][NextList]_vars

\* What host h contributes to a listing: its registry, or the requested
\* ids of it.
Contribution(h) ==
    {d \in Range(devices[h]) : listing.ids = {} \/ d \in listing.ids}

\* C11: when a listing over the hosts has met a failing host (an error
\* answer or a raised call), it still returns, and its merged result holds
\* the contribution of every host that answered (up to the amount asked).
C11_ListingOmitsOnlyFailedHost ==
    (listing.pc \in {"returned", "failed"} /\ listing.answered # {})
        => /\ listing.pc = "returned"
           /\ \A h \in listing.answered :
                \/ Contribution(h) \subseteq listing.devices
                \/ listing.ids = {} /\ Cardinality(listing.devices) >= listing.amount

\* C12: the result of executeApp holds one outcome for every device the
\* call leased, also when a pipeline fails or raises or an upload fails:
\* the request never ends as one request-level failure.
C12_OneOutcomePerLeasedDevice ==
    (\/ req.pc = "responded"
     \/ req.pc = "failed" /\ \E d \in DeviceIds : task[d].pc = "raised")
        => /\ req.pc = "responded"
           /\ \A d \in req.locked : return_dict[d] # "none"

(***************************************************************************)
(* The stages of one run of execute_app, in the order of the code.         *)
(***************************************************************************)
StageOrder ==
    <<"start_logcat", "install", "launch", "pid", "wait", "kill", "uninstall",
      "stop_logcat", "pull", "exit_uninstall", "exit_stop", "exit_unlock">>

Rank(c) == CHOOSE i \in 1..Len(StageOrder) : StageOrder[i] = c

\* The last step of a pipeline stage, as a rank in StageOrder.
LastRankOf(stage) ==
    CASE stage = "start_logcat" -> 1
      [] stage = "install" -> 2
      [] stage = "run" -> 4
      [] stage = "kill" -> 6
      [] stage = "uninstall" -> 7

PipelineCalls(d) ==
    {i \in 1..Len(task[d].calls) : Rank(task[d].calls[i]) <= 7}

Invoked(d, c) == \E i \in 1..Len(task[d].calls) : task[d].calls[i] = c

\* C13: when the install answers with an error and nothing else fails, the
\* outcome of the device has error = true and the message 'Error
\* install_app', the logcat file is attached and the lease is released.
C13_InstallFailureOutcome ==
    \A d \in DeviceIds :
        (/\ task[d].pc = "done"
         /\ task[d].failed = "install"
         /\ injected[d] = [n |-> 1, stage |-> "install"])
            => /\ task[d].error
               /\ task[d].result = "Error install_app"
               /\ task[d].logcat_file
               /\ ~in_use[d]

\* execute_app has returned the outcome of a failed install.
C13_Witness ==
    \E d \in DeviceIds :
        /\ task[d].pc = "done"
        /\ task[d].failed = "install"
        /\ injected[d] = [n |-> 1, stage |-> "install"]
        /\ task[d].result = "Error install_app"
        /\ task[d].logcat_file
        /\ ~in_use[d]
        /\ return_dict[d] = "outcome"

\* C14: when start logcat fails, no later pipeline stage is invoked, the
\* finalization runs, and the outcome of the device has error = true with
\* the message 'Error start_logcat_collect'.
C14_StartLogcatFailureOutcome ==
    \A d \in DeviceIds :
        (/\ task[d].pc = "done"
         /\ task[d].failed = "start_logcat"
         /\ injected[d] = [n |-> 1, stage |-> "start_logcat"])
            => /\ \A i \in PipelineCalls(d) : task[d].calls[i] = "start_logcat"
               /\ Invoked(d, "stop_logcat")
               /\ task[d].error
               /\ task[d].result = "Error start_logcat_collect"

\* The last calls of the task of d are the finalization and the release:
\* stop_logcat, pull when required, then uninstall, stop logcat and unlock
\* of DeviceUsage.__exit__, all of them after every pipeline call.
CleanupInvoked(d, pull) ==
    LET calls == task[d].calls
        n == Len(calls)
        k == IF pull THEN n - 4 ELSE n - 3
    IN /\ k >= 1
       /\ calls[n] = "exit_unlock"
       /\ calls[n - 1] = "exit_stop"
       /\ calls[n - 2] = "exit_uninstall"
       /\ pull => calls[n - 3] = "pull"
       /\ calls[k] = "stop_logcat"
       /\ \A i \in PipelineCalls(d) : i < k

\* No pipeline stage after the failed one has been invoked on d.
ShortCircuited(d) ==
    \A i \in PipelineCalls(d) : Rank(task[d].calls[i]) <= LastRankOf(task[d].failed)

\* C15 as stated: once a pipeline stage has failed (and nothing else does),
\* no later pipeline stage is invoked for the device in this run, and stop
\* logcat, pull log, and the uninstall, stop logcat and unlock of the outer
\* release are all invoked afterwards.
C15_FailureStillFinalizes ==
    \A d \in DeviceIds :
        (/\ task[d].failed # "none"
         /\ injected[d].n = 1)
            => /\ ShortCircuited(d)
               /\ task[d].pc \in {"done", "raised"} => CleanupInvoked(d, TRUE)

\* C15, amended: once a pipeline stage has failed, no later pipeline stage
\* is invoked for the device in this run; stop logcat and then the
\* uninstall, stop logcat and unlock of the outer release are invoked
\* afterwards in every case; the log is pulled whenever the stop returned a
\* file, which is every time the capture had started and nothing else fails.
C15_FailureShortCircuits ==
    \A d \in DeviceIds :
        task[d].failed # "none"
            => /\ ShortCircuited(d)
               /\ task[d].pc \in {"done", "raised"}
                    => /\ CleanupInvoked(d, Invoked(d, "pull"))
                       /\ ~Invoked(d, "pull")
                            => \/ task[d].result = "Error stopping logcat"
                               \/ task[d].pc = "raised"
                       /\ (injected[d].n = 1 /\ task[d].failed # "start_logcat")
                            => Invoked(d, "pull")

\* execute_app has returned after a failed kill: the uninstall of the
\* pipeline was skipped, the log was pulled and the lease released.
C15_Witness ==
    \E d \in DeviceIds :
        /\ task[d].pc = "done"
        /\ task[d].failed = "kill"
        /\ task[d].calls = <<"start_logcat", "install", "launch", "pid", "wait",
                             "kill", "stop_logcat", "pull", "exit_uninstall",
                             "exit_stop", "exit_unlock">>

\* C16: for each leased device the stages of one run are invoked strictly
\* in the order start logcat, install, launch, pid confirmation, execution
\* wait, kill, uninstall, stop logcat, pull, release; a stage is invoked only
\* when the previous call of the device has answered, and the unlock of the
\* release is the last call on the device.
C16_StagesInOrder ==
    \A d \in DeviceIds :
        LET calls == task[d].calls
        IN /\ \A i, j \in 1..Len(calls) : i < j => Rank(calls[i]) < Rank(calls[j])
           /\ Invoked(d, "exit_unlock") <=> task[d].pc \in {"done", "raised"}
           /\ task[d].resp # "" => task[d].pc \in {"run_done", "uninstall_done"}
           /\ loop_owner = d => task[d].pc \notin {"none", "ready", "run_wait",
                   "run_done", "uninstall_wait", "uninstall_done", "done", "raised"}

\* A device has gone through every stage while the task of another device
\* was under way.
C16_Witness ==
    \E d, e \in DeviceIds :
        /\ d # e
        /\ task[d].pc = "done"
        /\ task[d].calls = StageOrder
        /\ task[e].pc \in {"run_wait", "uninstall_wait"}

(***************************************************************************)
(* SpecDev: the registry handlers and installApp, runLastInstalledApk,     *)
(* startLogcatCollect, stopLogcatCollect on one host, one call at a time,  *)
(* with the capture processes they start and end.                          *)
(***************************************************************************)
\* startLogcatCollect(did): Device.start_collect_logcat creates the output
\* file and starts `adb logcat`; the new process replaces the recorded one.
\* When Popen fails the output file is closed and forgotten.
startLogcatCollect(h, did, o) ==
    LET known == did \in Range(devices[h])
    IN /\ o = "ok" /\ known => procs[did] < MaxAlive
       /\ logcat_collect_process' =
              IF known /\ o = "ok" THEN [logcat_collect_process EXCEPT ![did] = TRUE]
              ELSE logcat_collect_process
       /\ logout_tempfile' =
              IF known THEN [logout_tempfile EXCEPT ![did] = (o = "ok")]
              ELSE logout_tempfile
       /\ procs' = IF known /\ o = "ok" THEN StartedProcs(did) ELSE procs
       /\ last_op' = [op |-> "start_logcat", host |-> h, did |-> did,
                      error |-> IF ~known THEN "Logcat start failed, device not available"
                                ELSE IF o = "fail" THEN "Logcat start failed"
                                ELSE ""]
       /\ UNCHANGED <<devices, in_use, last_installed_app, running_app_pid,
                      adb_state, outstanding, live>>

\* stopLogcatCollect(did): Device.stop_collect_logcat terminates the
\* recorded process and forgets it together with the output file.
stopLogcatCollect(h, did, o) ==
    LET err == StopLogcatError(did, o)
    IN /\ o = "fail" => StopLogcatError(did, "fail") # StopLogcatError(did, "ok")
       /\ logcat_collect_process' =
              IF err = "" THEN [logcat_collect_process EXCEPT ![did] = StoppedProcess(@, o)]
              ELSE logcat_collect_process
       /\ logout_tempfile' =
              IF err = "" THEN [logout_tempfile EXCEPT ![did] = StoppedProcess(@, o)]
              ELSE logout_tempfile
       /\ procs' = IF err = "" THEN EndedProcs({did}) ELSE procs
       /\ last_op' = [op |-> "stop_logcat", host |-> h, did |-> did, error |-> err,
                      again |-> /\ last_op.op = "stop_logcat"
                                /\ last_op.did = did
                                /\ last_op.error = ""]
       /\ UNCHANGED <<devices, in_use, last_installed_app, running_app_pid,
                      adb_state, outstanding, live>>

\* installApp(did, ...): Device.install_apk records the package once
\* `pm list packages` shows it.
installApp(h, did, o) ==
    LET known == did \in Range(devices[h])
    IN /\ last_installed_app' =
              IF known /\ o = "ok" THEN [last_installed_app EXCEPT ![did] = Pkg]
              ELSE last_installed_app
       /\ last_op' = [op |-> "install", host |-> h, did |-> did,
                      error |-> IF ~known THEN "Device not found"
                                ELSE IF o = "fail" THEN "Could not install App"
                                ELSE ""]
       /\ UNCHANGED <<devices, in_use, running_app_pid, logcat_collect_process,
                      logout_tempfile, procs, adb_state, outstanding, live>>

\* runLastInstalledApk(did, ...): the pid of the started app is recorded.
runLastInstalledApk(h, did, o) ==
    /\ o # "ok" => RunError(did, "ok") = ""
    /\ running_app_pid' =
           IF o \in {"ok", "kill_fail"} /\ RunError(did, "ok") = ""
           THEN [running_app_pid EXCEPT ![did] = 1]
           ELSE running_app_pid
    /\ last_op' = [op |-> "run", host |-> h, did |-> did, error |-> RunError(did, o)]
    /\ UNCHANGED <<devices, in_use, last_installed_app, logcat_collect_process,
                   logout_tempfile, procs, adb_state, outstanding, live>>

\* The device the handlers are called for; the other devices of the host
\* are plugged, unplugged and enumerated only.
DevTarget == CHOOSE d \in HostDevices(RegHost) : \A e \in HostDevices(RegHost) : d <= e

\* The device is asked for by its id.
DevLease ==
    /\ \E o \in IF Len(devices[RegHost]) = 0 THEN {"ok", "timeout"} ELSE {"ok"} :
         getFreeDevices(RegHost, 1, {DevTarget}, o)
    /\ RegFrame

DevRelease == unlockDevice(RegHost, DevTarget) /\ RegFrame

DevInstall == (\E o \in {"ok", "fail"} : installApp(RegHost, DevTarget, o)) /\ RegFrame

DevRun ==
    /\ \E o \in {"ok", "no_pid", "kill_fail"} : runLastInstalledApk(RegHost, DevTarget, o)
    /\ RegFrame

DevStartLogcat ==
    (\E o \in {"ok", "fail"} : startLogcatCollect(RegHost, DevTarget, o)) /\ RegFrame

DevStopLogcat ==
    (\E o \in {"ok", "fail"} : stopLogcatCollect(RegHost, DevTarget, o)) /\ RegFrame

NextDev ==
    \/ RegAdbChange \/ RegRefresh \/ DevLease \/ DevRelease
    \/ DevInstall \/ DevRun \/ DevStartLogcat \/ DevStopLogcat

SpecDev == InitReg /\ [][NextDev]_vars

\* C17: for any sequence of start-capture and stop-capture operations on a
\* device, at most one logcat capture process started for that device is
\* alive at any time.
C17_OneCapturePerDevice == \A d \in DeviceIds : procs[d] <= 1

\* The fields of the records of the registry.
recordVars == <<in_use, last_installed_app, running_app_pid,
                logcat_collect_process, logout_tempfile>>

\* The record of device d is the same before and after the step.
SameRecord(d) ==
    /\ in_use'[d] = in_use[d]
    /\ last_installed_app'[d] = last_installed_app[d]
    /\ running_app_pid'[d] = running_app_pid[d]
    /\ logcat_collect_process'[d] = logcat_collect_process[d]
    /\ logout_tempfile'[d] = logout_tempfile[d]

\* After the step the record of device d has the defaults of Device.
FreshRecord(d) ==
    /\ ~in_use'[d]
    /\ last_installed_app'[d] = None
    /\ running_app_pid'[d] = 0
    /\ ~logcat_collect_process'[d]
    /\ ~logout_tempfile'[d]

\* C18: with an unchanged set of attached devices, a refresh that follows a
\* refresh leaves the registry as the first one left it: same device ids in
\* the same order, same in_use, last_installed_app, pid and logcat state.
C18_RefreshIdempotent ==
    [][\A o \in {"ok", "timeout"} :
          (/\ last_op.op = "refresh"
           /\ last_op.host = RegHost
           /\ last_op.outcome = o
           /\ last_op.seen = Seen(RegHost, o)
           /\ getAdbDevices(RegHost, o))
              => UNCHANGED <<devices, recordVars>>]_vars

\* A second refresh with the same report has been served while the device
\* was leased, with a package installed and a capture running.
C18_Witness ==
    /\ last_op.op = "refresh"
    /\ last_op.outcome = "ok"
    /\ last_op.again
    /\ Len(devices[RegHost]) = Cardinality(HostDevices(RegHost))
    /\ in_use[DevTarget]
    /\ last_installed_app[DevTarget] = Pkg
    /\ logcat_collect_process[DevTarget]

\* C19: after a refresh the registry contains no device that the
\* enumeration did not report; a known device absent from the enumeration
\* is deleted whether it was leased or not.
C19_RefreshDropsUnreported ==
    (last_op.op = "refresh" /\ last_op.error = "")
        => /\ \A d \in Range(devices[last_op.host]) : last_op.seen[d] # "offline"
           /\ \A d \in last_op.removed : last_op.seen[d] = "offline"

\* One refresh has deleted a leased device and a device that was not leased.
C19_Witness ==
    /\ last_op.op = "refresh"
    /\ last_op.outcome = "ok"
    /\ last_op.leased # {}
    /\ last_op.removed \ last_op.leased # {}

\* C20: a refresh leaves in_use, last_installed_app, the running pid and the
\* logcat session of every device that was in the registry and is still
\* enumerated unchanged; a device not yet in the registry gets a fresh
\* record.
C20_RefreshKeepsRecords ==
    [][\A o \in {"ok", "timeout", "error"} :
          getAdbDevices(RegHost, o)
              => /\ \A d \in Range(devices[RegHost]) \cap Range(devices'[RegHost]) :
                      SameRecord(d)
                 /\ \A d \in Range(devices'[RegHost]) \ Range(devices[RegHost]) :
                      FreshRecord(d)
                 /\ \A d \in Range(devices[RegHost]) :
                      Seen(RegHost, o)[d] # "offline" /\ o # "error"
                          => d \in Range(devices'[RegHost])]_vars

\* A refresh has added a device while the device known before was leased,
\* with a package installed, a pid recorded and a capture running.
C20_Witness ==
    /\ last_op.op = "refresh"
    /\ last_op.added # {}
    /\ DevTarget \in Range(devices[RegHost]) \ last_op.added
    /\ in_use[DevTarget]
    /\ last_installed_app[DevTarget] = Pkg
    /\ running_app_pid[DevTarget] = 1
    /\ logcat_collect_process[DevTarget]

\* C21: executeApp reports its result (the outcomes, or a failure) to the
\* caller only after every execute_app task it started has finished, also
\* when one of the tasks ends with an exception.
C21_RespondsAfterAllTasks ==
    req.pc \in {"responded", "failed"} => \A d \in DeviceIds : Finished(d)

(***************************************************************************)
(* SpecTool: install_apk, uninstall_apk, run_apk, kill_apk and             *)
(* clear_logcat of one Device, as functions of the outcome of each adb     *)
(* invocation they make through Device._exec_adb.                          *)
(***************************************************************************)
\* Device._exec_adb: (stdout, stderr); stderr is None without an error. On a
\* timeout or exception stdout is empty and stderr is str(e).
exec_adb(out, stdout) ==
    CASE out = "ok" -> [stdout |-> stdout, stderr |-> None]
      [] out = "stderr" -> [stdout |-> stdout, stderr |-> "stderr text"]
      [] out = "timeout" -> [stdout |-> {}, stderr |-> "timed out"]

\* Package names as sequences of their dot-separated parts.
PkgParts(name) ==
    CASE name = Pkg -> <<"pkg">>
      [] name = "pkg.beta" -> <<"pkg", "beta">>
      [] name = "other" -> <<"other">>

PackageNames == {Pkg, "pkg.beta", "other"}

\* `a in b` on strings: a is a contiguous part of b.
StrIn(a, b) ==
    \E i \in 1..(Len(PkgParts(b)) - Len(PkgParts(a)) + 1) :
        SubSeq(PkgParts(b), i, i + Len(PkgParts(a)) - 1) = PkgParts(a)

\* Device.is_package_installed: any line of `pm list packages` contains the
\* package name. The lines are the output of _exec_adb, empty on a timeout.
is_package_installed(package_name, out, installed) ==
    \E line \in exec_adb(out, installed).stdout : StrIn(package_name, line)

\* Some invocation among the first n of outs has the outcome o.
Among(outs, n, o) == \E i \in 1..n : outs[i] = o

InstallSetsUnverified(app, outs, installed) ==
    [error |-> FALSE, msg |-> "", app |-> Pkg, used |-> 5]

\* Device.install_apk(filename) for a file with the package name Pkg:
\* uninstall_apk(package_name) (shell log, uninstall), shell log, install,
\* then the check; outs are the outcomes of these five invocations and
\* installed the packages on the device after the install command.
install_apk(app, outs, installed) ==
    IF is_package_installed(Pkg, outs[5], installed)
    THEN [error |-> FALSE, msg |-> "", app |-> Pkg, used |-> 5]
    ELSE [error |-> TRUE,
          msg |-> IF exec_adb(outs[4], {}).stderr = None
                  THEN "Could not install App, stderr: "
                  ELSE exec_adb(outs[4], {}).stderr,
          app |-> app, used |-> 5]

UninstallAlwaysForgets(package_name, app, outs) ==
    IF package_name = None /\ app = None
    THEN [error |-> TRUE, msg |-> "", app |-> app, used |-> 0, del |-> None]
    ELSE [error |-> FALSE, msg |-> "", app |-> None, used |-> 2,
          del |-> IF package_name # None THEN package_name ELSE app]

\* Device.uninstall_apk(package_name): the package given, else
\* last_installed_app, which is then forgotten, else a failure; shell log,
\* uninstall del_package; the results are not read.
uninstall_apk(package_name, app, outs) ==
    IF package_name # None
    THEN [error |-> FALSE, msg |-> "", app |-> app, used |-> 2, del |-> package_name]
    ELSE IF app # None
         THEN [error |-> FALSE, msg |-> "", app |-> None, used |-> 2, del |-> app]
         ELSE [error |-> TRUE, msg |-> "", app |-> app, used |-> 0, del |-> None]

\* Device.run_apk(): shell log, monkey; the results are not read.
run_apk(app, outs) ==
    IF app = None THEN [error |-> TRUE, msg |-> "", app |-> app, used |-> 0]
    ELSE [error |-> FALSE, msg |-> "", app |-> app, used |-> 2]

\* Device.kill_apk(): shell log, pm clear, and when that did not print
\* "Success" or wrote to stderr: shell log, force-stop; then shell log.
kill_apk(app, outs, success) ==
    IF app = None THEN [error |-> TRUE, msg |-> "", app |-> app, used |-> 0]
    ELSE [error |-> FALSE, msg |-> "", app |-> app,
          used |-> IF outs[2] = "ok" /\ success THEN 3 ELSE 5]

\* The packages on the device after `adb uninstall pkg` ended with out: the
\* package is gone when adb reported nothing on stderr; after a message on
\* stderr or a timeout (the adb process is left running) it may be gone.
AfterUninstall(pkgs, pkg, out, gone) ==
    IF pkg # None /\ (out = "ok" \/ gone) THEN pkgs \ {pkg} ELSE pkgs

\* The packages on the device after `adb install`: the package was put on
\* the device or not, whatever adb wrote to stderr.
AfterInstall(pkgs, pkg, added) == IF added THEN pkgs \cup {pkg} ELSE pkgs

\* The operation is recorded with its argument and result, the number of
\* adb invocations it made, whether one of them ended on the timeout or
\* wrote to stderr (for the install: the install command), what the check
\* of the package found, and last_installed_app before the call; pkgs are
\* the packages on the device afterwards.
ToolOp(op, arg, res, pkgs, timed_out, found, stderr) ==
    /\ DevTarget \in Range(devices[RegHost])
    /\ last_installed_app' = [last_installed_app EXCEPT ![DevTarget] = res.app]
    /\ packages' = [packages EXCEPT ![DevTarget] = pkgs]
    /\ last_op' = [op |-> op, host |-> RegHost, did |-> DevTarget, arg |-> arg,
                   error |-> res.error, msg |-> res.msg, used |-> res.used,
                   timed_out |-> timed_out,
                   found |-> found, stderr |-> stderr,
                   before |-> last_installed_app[DevTarget]]
    /\ UNCHANGED <<devices, in_use, running_app_pid, logcat_collect_process,
                   logout_tempfile, procs, adb_state, outstanding, live>>

ToolFrame == UNCHANGED <<thrVars, xferVars, orchVars, listVars>>

ToolInstall ==
    /\ \E outs \in [1..5 -> ToolOutcomes], gone \in BOOLEAN, added \in BOOLEAN :
         LET installed == AfterInstall(
                 AfterUninstall(packages[DevTarget], Pkg, outs[2], gone), Pkg, added)
         IN ToolOp("install_apk", Pkg,
                   install_apk(last_installed_app[DevTarget], outs, installed),
                   installed,
                   Among(outs, 5, "timeout"),
                   is_package_installed(Pkg, outs[5], installed),
                   outs[4] = "stderr")
    /\ ToolFrame

ToolUninstall ==
    /\ \E package_name \in {None, Pkg, "other"}, outs \in [1..2 -> ToolOutcomes],
          gone \in BOOLEAN :
         LET res == uninstall_apk(package_name, last_installed_app[DevTarget], outs)
         IN ToolOp("uninstall_apk", package_name, res,
                   IF res.used = 0 THEN packages[DevTarget]
                   ELSE AfterUninstall(packages[DevTarget], res.del, outs[2], gone),
                   Among(outs, res.used, "timeout"), FALSE,
                   Among(outs, res.used, "stderr"))
    /\ ToolFrame

ToolRun ==
    /\ \E outs \in [1..2 -> ToolOutcomes] :
         LET res == run_apk(last_installed_app[DevTarget], outs)
         IN ToolOp("run_apk", None, res, packages[DevTarget],
                   Among(outs, res.used, "timeout"), FALSE,
                   Among(outs, res.used, "stderr"))
    /\ ToolFrame

ToolKill ==
    /\ \E outs \in [1..5 -> ToolOutcomes], success \in BOOLEAN :
         LET res == kill_apk(last_installed_app[DevTarget], outs, success)
         IN ToolOp("kill_apk", None, res, packages[DevTarget],
                   Among(outs, res.used, "timeout"), FALSE,
                   Among(outs, res.used, "stderr"))
    /\ ToolFrame

\* Device.clear_logcat(): logcat -c; nothing is returned.
ToolClearLogcat ==
    /\ \E out \in ToolOutcomes :
         ToolOp("clear_logcat", None,
                [error |-> FALSE, msg |-> "", used |-> 1,
                 app |-> last_installed_app[DevTarget]],
                packages[DevTarget],
                out = "timeout", FALSE, out = "stderr")
    /\ ToolFrame

\* A package other than the one under test is on the device, put there by
\* its user.
ToolSideload ==
    /\ \E pkg \in PackageNames \ {Pkg} :
         /\ pkg \notin packages[DevTarget]
         /\ packages' = [packages EXCEPT ![DevTarget] = @ \cup {pkg}]
    /\ UNCHANGED <<regVars, histVars>>
    /\ ToolFrame

NextTool ==
    \/ RegRefresh \/ ToolSideload
    \/ ToolInstall \/ ToolUninstall \/ ToolRun \/ ToolKill \/ ToolClearLogcat

SpecTool == InitReg /\ [][NextTool]_vars

IsToolOp == last_op.op \notin {"none", "refresh", "lease", "unlock"}

\* C22: when an adb invocation exceeds its timeout, the operation that
\* issued it (install, uninstall, run, kill, logcat clear) returns a failure
\* that reports the timeout; no operation returns success after one of its
\* invocations has timed out.
C22_TimeoutIsReported ==
    (IsToolOp /\ last_op.timed_out)
        => last_op.error /\ last_op.msg = "timed out"

\* C30: install sets last_installed_app to the package only when the check
\* after the install command finds the package, whatever the tool wrote to
\* stderr; when the check does not find it, install returns an error and
\* leaves last_installed_app unchanged.
C30_InstallSetsOnlyVerified ==
    last_op.op = "install_apk"
        => IF last_op.found
           THEN ~last_op.error /\ last_installed_app[DevTarget] = Pkg
           ELSE last_op.error /\ last_installed_app[DevTarget] = last_op.before

\* An install whose install command wrote to stderr was verified and
\* recorded on a device that had no package before.
C30_Witness ==
    /\ last_op.op = "install_apk"
    /\ last_op.stderr
    /\ last_op.found
    /\ last_op.before = None
    /\ last_installed_app[DevTarget] = Pkg

(***************************************************************************)
(* The outcome of execute_app.                                             *)
(***************************************************************************)
\* execute_app has returned exec_result for device d.
Returned(d) == task[d].pc = "done"

C24_RequestFailureReleases ==
    (req.pc = "failed" /\ req.cause \in {"lease", "store"})
        => \A d \in req.locked : ~in_use[d]

(***************************************************************************)
(* DeviceUsage.__exit__                                                    *)
(***************************************************************************)
ExitSteps == <<"exit_uninstall", "exit_stop", "exit_unlock">>

\* The position after the release step pc of a task; exc: an exception is
\* on its way out of the with block.
AfterExitStep(pc, exc) ==
    CASE pc = "exit_uninstall" -> "exit_stop"
      [] pc = "exit_stop" -> "exit_unlock"
      [] pc = "exit_unlock" -> IF exc THEN "raised" ELSE "done"

\* The outcome of the task: exec_result and the propagating exception.
OutcomeOf(t) == <<t.error, t.result, t.logcat_file, t.exc, t.failed>>

\* C25: whenever execute_app leaves the with block (return of the outcome,
\* pipeline error or exception), uninstall, stop logcat and unlock are each
\* invoked once, in this order, as the last calls of the task; whatever a
\* release call answers or raises, the next one follows, and no release
\* call changes the outcome or the exception on its way.
C25_ReleaseAttemptsAll ==
    [][\A d \in DeviceIds :
         /\ (task[d].pc \in Range(ExitSteps) /\ task'[d] # task[d])
               => /\ task'[d].pc = AfterExitStep(task[d].pc, task[d].exc)
                  /\ task'[d].calls = Append(task[d].calls, task[d].pc)
                  /\ OutcomeOf(task'[d]) = OutcomeOf(task[d])
         /\ (task'[d].pc \in {"done", "raised"} /\ task'[d] # task[d])
               => /\ task[d].pc = "exit_unlock"
                  /\ \A c \in Range(ExitSteps) :
                        Cardinality({i \in 1..Len(task'[d].calls) :
                                        task'[d].calls[i] = c}) = 1
         /\ (task[d].pc \notin Range(ExitSteps) /\ task'[d].pc \in Range(ExitSteps))
               => task'[d].pc = "exit_uninstall"
      ]_vars

\* A release call before the unlock failed, the unlock went through and
\* execute_app has returned its outcome; another task ended with an
\* exception after its release.
C25_Witness ==
    \E d, e \in DeviceIds :
        /\ task[d].pc = "done" /\ ~task[d].error
        /\ injected[d] = [n |-> 1, stage |-> "exit"]
        /\ ~in_use[d]
        /\ task[e].pc = "raised"
        /\ Invoked(e, "exit_unlock")

(***************************************************************************)
(* The host-wide adb lock.                                                 *)
(***************************************************************************)
\* Thread t is inside a handler that goes through Device._exec_adb.
InDeviceOp(t) == th[t].pc \in {"adb_wait", "adb_run"}

\* C26: the adb lock is held only by a thread that is inside the with
\* block of _exec_adb, so no thread asks for the lock while holding it and
\* no thread keeps it after its invocation has ended, on a timeout
\* included; whenever a thread waits for the lock, the lock is free or its
\* holder is running the tool and will leave the block: the device
\* operations of a host cannot deadlock on the lock.
C26_LockNeverBlocks ==
    /\ adb_lock # 0 => th[adb_lock].pc = "adb_run"
    /\ \A t \in Threads :
         /\ th[t].pc = "adb_wait" => adb_lock # t
         /\ th[t].pc = "adb_run" => adb_lock = t
         /\ th[t].pc = "adb_wait"
              => \/ adb_lock = 0
                 \/ \E u \in Threads \ {t} : adb_lock = u /\ th[u].pc = "adb_run"

\* A thread whose last invocation timed out waits for the lock again while
\* the other thread, in a device operation too, holds it.
C26_Witness ==
    \E t, u \in Threads :
        /\ t # u
        /\ th[t].pc = "adb_wait" /\ th[t].out = "timeout"
        /\ th[u].pc = "adb_run" /\ adb_lock = u
        /\ th[u].op \in DeviceOps

(***************************************************************************)
(* SpecLive: the orchestration under fair scheduling. The event loop runs  *)
(* every task that is ready, and the worker threads of a host serve every  *)
(* call they were given: each call of a task is answered (or raises), each *)
(* adb invocation behind it ends at the latest on ADB_EXECUTION_TIMEOUT    *)
(* and the wait of runLastInstalledApk ends after execution_time.          *)
(***************************************************************************)
\* The next step of execute_app for device d, with whatever outcome.
TaskStep(d) ==
    \/ \E o \in Outcomes :
          \/ TaskStartLogcat(d, o) \/ TaskInstall(d, o) \/ HostUninstall(d, o)
          \/ TaskFinStop(d, o) \/ TaskFinPull(d, o) \/ TaskExitStop(d, o)
    \/ \E o \in {"ok", "no_pid", "kill_fail", "exc"} : HostRun(d, o)
    \/ TaskRunResume(d) \/ TaskUninstallResume(d)
    \/ \E o \in {"ok", "exc"} : TaskExitUninstall(d, o) \/ TaskExitUnlock(d, o)

Fairness == \A d \in DeviceIds : WF_vars(TaskStep(d) /\ OrchFrame)

SpecLive == Init /\ [][Next]_vars /\ Fairness

\* C27: every execute_app task that gather has scheduled eventually ends,
\* after the unlock of its device has been invoked; it ends with its
\* outcome unless a call on the device failed or raised.
C27_TasksTerminate ==
    \A d \in DeviceIds :
        (task[d].pc = "ready" /\ req.pc = "gather")
            ~> /\ task[d].pc \in {"done", "raised"}
               /\ Invoked(d, "exit_unlock")
               /\ injected[d].n = 0 => task[d].pc = "done"

\* Two tasks have ended with their outcome and the unlock invoked, one of
\* them after the other had begun its run on the host.
C27_Witness ==
    \E d, e \in DeviceIds :
        /\ d # e
        /\ task[d].pc = "done" /\ Invoked(d, "exit_unlock") /\ ~in_use[d]
        /\ task[e].pc = "done" /\ Invoked(e, "exit_unlock")
        /\ req.pc = "responded"

(***************************************************************************)
(* SpecWait: the calls of the execute_app tasks as one host serves them.   *)
(* The event loop of the orchestrator issues one call at a time: a call    *)
(* made directly in the coroutine keeps the loop until the host has        *)
(* answered, a call given to asyncio.to_thread leaves the loop to the      *)
(* other tasks. A task has at most one call under way.                     *)
(***************************************************************************)
OffloadedNone(op) == FALSE

\* execute_app: the calls wrapped in `await asyncio.to_thread(...)`.
Offloaded(op) == op \in {"runLastInstalledApk", "uninstallApp"}

WaitOps == {"installApp", "runLastInstalledApk"}

\* The worker t of the host serves a call for device d.
Serving(t, d) == th[t].pc # "idle" /\ th[t].cur = d

\* The task of device d issues its next call, served by worker t.
TaskCall(t, d, op) ==
    /\ loop_owner = 0
    /\ \A u \in Threads : ~Serving(u, d)
    /\ HostDeviceCall(t, d, op)
    /\ loop_owner' = IF Offloaded(op) THEN 0 ELSE d
    /\ UNCHANGED <<req, return_dict, task, injected>>

\* An adb invocation of a handler ends; with the answer of a call the task
\* gets in the coroutine, the task goes on and reaches its next await.
TaskAnswered(t, out, verified) ==
    /\ HostAdbRelease(t, out, verified)
    /\ loop_owner' = IF th'[t].pc = "idle" /\ loop_owner = th[t].cur
                     THEN 0 ELSE loop_owner
    /\ UNCHANGED <<req, return_dict, task, injected>>

WaitFrame == UNCHANGED <<xferVars, listVars, pkgVars>>

WCall ==
    /\ \E t \in Threads, d \in HostDevices(RegHost), op \in WaitOps : TaskCall(t, d, op)
    /\ WaitFrame

WAnswered ==
    /\ \E t \in Threads, out \in ToolOutcomes, verified \in BOOLEAN :
         TaskAnswered(t, out, verified)
    /\ WaitFrame

WWaitEnd == (\E t \in Threads : HostWaitEnd(t)) /\ HostFrame

NextWait ==
    \/ HRefreshCall \/ HEnumDevices \/ HEnumGetprop \/ HEnumEnd
    \/ WCall \/ HAdbAcquire \/ WAnswered \/ WWaitEnd

SpecWait == InitReg /\ [][NextWait]_vars

\* C28: while a worker of the host is in the wait of runLastInstalledApk,
\* it does not hold the adb lock and the task it serves does not hold the
\* event loop: the loop and the lock are free, or in the hands of another
\* task's call that is under way, so the other tasks go on.
C28_WaitBlocksNobody ==
    \A t \in Threads :
        th[t].pc = "sleep"
            => /\ adb_lock # t
               /\ loop_owner # th[t].cur
               /\ \/ loop_owner = 0
                  \/ \E u \in Threads \ {t} :
                        Serving(u, loop_owner) /\ th[u].pc \in {"adb_wait", "adb_run"}
               /\ \/ adb_lock = 0
                  \/ \E u \in Threads \ {t} : adb_lock = u /\ th[u].pc = "adb_run"

\* During the wait of one device's run the install of another device is
\* served: its task has the event loop, its worker has the adb lock and
\* runs the install command.
C28_Witness ==
    \E t, u \in Threads :
        /\ th[t].pc = "sleep" /\ th[t].op = "runLastInstalledApk"
        /\ th[u].pc = "adb_run" /\ th[u].op = "installApp" /\ th[u].tool = "install"
        /\ th[u].cur # th[t].cur
        /\ loop_owner = th[u].cur
        /\ adb_lock = u

\* C29: when stop logcat succeeded and the pull of the log fails, the
\* outcome has error = true, no log attached and the message 'Error
\* pulling logcat' followed by the error the pull reported.
C29_PullFailureOutcome ==
    \A d \in DeviceIds :
        (Returned(d) /\ Invoked(d, "pull") /\ ~task[d].logcat_file)
            => /\ task[d].error
               /\ task[d].result = "Error pulling logcat"
               /\ task[d].detail = PullError

(***************************************************************************)
(* last_installed_app and the packages on the device.                      *)
(***************************************************************************)
\* C31: after any sequence of install, uninstall, run and kill operations
\* on a device, a last_installed_app that is not None names a package that
\* is on the device: no operation of the host removes the tracked package
\* and leaves last_installed_app pointing at it.
C31_TrackedPackageInstalled ==
    \A d \in Range(devices[RegHost]) :
        last_installed_app[d] # None => last_installed_app[d] \in packages[d]

\* C32: uninstall with an explicit package uninstalls that package and
\* leaves last_installed_app unchanged; without one it uninstalls
\* last_installed_app and sets it to None; with neither it returns a
\* failure and invokes no adb command. So an uninstall without a package
\* that follows a successful one fails and invokes nothing.
C32_UninstallTarget ==
    last_op.op = "uninstall_apk"
        => IF last_op.arg # None
           THEN /\ ~last_op.error /\ last_op.used = 2
                /\ last_installed_app[DevTarget] = last_op.before
           ELSE IF last_op.before # None
                THEN /\ ~last_op.error /\ last_op.used = 2
                     /\ last_installed_app[DevTarget] = None
                ELSE /\ last_op.error /\ last_op.used = 0
                     /\ last_installed_app[DevTarget] = None

\* An uninstall without a package has failed on a device whose package
\* had been installed and uninstalled before.
C32_Witness ==
    /\ last_op.op = "uninstall_apk" /\ last_op.arg = None
    /\ last_op.error /\ last_op.used = 0 /\ last_op.before = None
    /\ Pkg \notin packages[DevTarget]
    /\ "other" \in packages[DevTarget]

(***************************************************************************)
(* Frame conditions of the registry handlers.                              *)
(***************************************************************************)
\* C33: unlockDevice for an id in the registry sets in_use of that device
\* to false, whatever it was, and changes no other device and no other
\* field; with the id __ALL__ it sets in_use to false for every device in
\* the registry; for an id that is not in the registry it answers with an
\* error and changes nothing.
C33_ReleaseFrame ==
    [][\A did \in HostDevices(RegHost) \cup {ALL} :
         unlockDevice(RegHost, did)
            => /\ <<devices, last_installed_app, running_app_pid,
                     logcat_collect_process, logout_tempfile>>'
                    = <<devices, last_installed_app, running_app_pid,
                        logcat_collect_process, logout_tempfile>>
               /\ \A e \in DeviceIds \ Range(devices[RegHost]) : in_use'[e] = in_use[e]
               /\ IF did = ALL
                  THEN /\ \A e \in Range(devices[RegHost]) : ~in_use'[e]
                       /\ last_op'.error = ""
                  ELSE IF did \in Range(devices[RegHost])
                       THEN /\ ~in_use'[did]
                            /\ \A e \in DeviceIds \ {did} : in_use'[e] = in_use[e]
                            /\ last_op'.error = ""
                       ELSE /\ in_use' = in_use
                            /\ last_op'.error # ""
      ]_vars

\* A leased device has been released by its id while another device of the
\* registry is still leased.
C33_Witness ==
    /\ last_op.op = "unlock"
    /\ last_op.did # ALL
    /\ last_op.error = ""
    /\ ~in_use[last_op.did]
    /\ outstanding[last_op.did] = 0
    /\ \E e \in Range(devices[RegHost]) : e # last_op.did /\ in_use[e]

(***************************************************************************)
(* The enumeration and the registry.                                       *)
(***************************************************************************)
\* C34: when `adb devices` times out, getAdbDevices answers without an
\* error and with an empty device list: the registry holds no device
\* afterwards, every device known before, leased or not, is removed.
C34_TimeoutEmptiesRegistry ==
    (last_op.op = "refresh" /\ last_op.outcome = "timeout")
        => /\ last_op.error = ""
           /\ devices[RegHost] = <<>>
           /\ last_op.added = {}
           /\ \A d \in HostDevices(RegHost) :
                 ~in_use[d] /\ last_installed_app[d] = None

\* A refresh whose enumeration timed out has removed a leased device and a
\* free one, both still attached.
C34_Witness ==
    /\ last_op.op = "refresh" /\ last_op.outcome = "timeout"
    /\ last_op.leased # {}
    /\ last_op.removed \ last_op.leased # {}
    /\ \A d \in last_op.removed : adb_state[d] = "device"
    /\ devices[RegHost] = <<>>

\* C35: after a refresh, every enumerated device whose connection state is
\* usable ("device" or "unauthorized") has a record in the registry, and no
\* device in another state has one.
C35_RegistryIsUsableDevices ==
    (last_op.op = "refresh" /\ last_op.outcome = "ok")
        => \A d \in HostDevices(RegHost) :
              d \in Range(devices[RegHost]) <=> last_op.seen[d] \in VALID_DEVICE_STATES

\* C36: getFreeDevices enumerates the devices exactly when the registry is
\* empty at the call: then the registry becomes the attached devices in
\* state "device" (none when the enumeration fails); when the registry is
\* not empty the call leaves the registry as it is, whatever is attached,
\* and in either case in_use changes only for the devices it returns, which
\* become leased.
C36_LeaseRefreshesWhenEmpty ==
    [][\A r \in LeaseRequests(CountValues, HostDevices(RegHost)) :
         \A o \in {"ok", "timeout", "error"} :
            getFreeDevices(RegHost, r[1], r[2], o)
               => /\ Len(devices[RegHost]) # 0 => devices' = devices
                  /\ Len(devices[RegHost]) = 0
                       => Range(devices'[RegHost])
                            = IF o = "ok"
                              THEN {d \in HostDevices(RegHost) : adb_state[d] = "device"}
                              ELSE {}
                  /\ \A d \in DeviceIds :
                        IF d \in Range(last_op'.result) THEN in_use'[d] /\ ~in_use[d]
                        ELSE in_use'[d] = in_use[d]
      ]_vars

\* A lease on a registry that is not empty has returned a device while the
\* registry differs from what is attached: a recorded device is unplugged
\* and an attached one has no record.
C36_Witness ==
    /\ last_op.op = "lease" /\ ~last_op.refreshed
    /\ Len(last_op.result) = 1
    /\ \E d \in Range(devices[RegHost]) : adb_state[d] = "offline"
    /\ \E d \in HostDevices(RegHost) \ Range(devices[RegHost]) : adb_state[d] = "device"

\* The position of device d in the registry of the host.
PositionOf(d) == CHOOSE i \in 1..Len(devices[RegHost]) : devices[RegHost][i] = d

\* C37: the ids a lease returns are in the order in which the devices were
\* put into the registry; for a non-empty wish list the lease returns
\* every free registry device of the list, whatever num_devices is, and
\* no other device.
C37_LeaseInDiscoveryOrder ==
    last_op.op = "lease"
        => LET ret == last_op.result
           IN /\ \A i \in 1..Len(ret) : ret[i] \in Range(devices[RegHost])
              /\ \A i, j \in 1..Len(ret) :
                    i < j => PositionOf(ret[i]) < PositionOf(ret[j])
              /\ last_op.wish_devices # {}
                    => /\ Range(ret) \subseteq last_op.wish_devices
                       /\ \A d \in last_op.wish_devices \cap Range(devices[RegHost]) :
                             in_use[d]
                       /\ ~last_op.refreshed
                             => Range(ret) = last_op.wish_devices \cap last_op.free

\* A lease by ids with num_devices = 1 has returned two devices, the one
\* with the higher id first because it was discovered first.
C37_Witness ==
    /\ last_op.op = "lease"
    /\ last_op.wish_devices # {}
    /\ last_op.num_devices = 1
    /\ Len(last_op.result) = 2
    /\ last_op.result[1] > last_op.result[2]

(***************************************************************************)
(* The capture session of a device.                                        *)
(***************************************************************************)
\* Device d has a capture session: a recorded process and its output file.
SessionActive(d) == logcat_collect_process[d] /\ logout_tempfile[d]

\* C38: stopLogcatCollect on a registry device without a capture session
\* answers with an error and leaves the process and the output file of the
\* record as they are; with a session, a stop that goes through answers
\* with the file and ends the session. So the stop that follows a
\* successful stop answers with an error.
C38_StopWithoutSession ==
    [][\A o \in {"ok", "fail"} :
         (stopLogcatCollect(RegHost, DevTarget, o) /\ InRegistry(DevTarget))
            => /\ ~SessionActive(DevTarget)
                    => /\ last_op'.error # ""
                       /\ logcat_collect_process' = logcat_collect_process
                       /\ logout_tempfile' = logout_tempfile
                       /\ procs' = procs
               /\ (SessionActive(DevTarget) /\ o = "ok")
                    => /\ last_op'.error = ""
                       /\ ~SessionActive(DevTarget)'
               /\ last_op'.again => last_op'.error # ""
      ]_vars

\* The stop directly after a successful stop has answered with an error.
C38_Witness ==
    /\ last_op.op = "stop_logcat"
    /\ last_op.again
    /\ last_op.error = "Logcat stop failed, no output file!"
    /\ InRegistry(DevTarget)
    /\ ~logcat_collect_process[DevTarget]

\* C39: no capture process outlives the device record that owns it: a
\* device without a record in the registry has no live capture process.
C39_NoCaptureOutlivesRecord ==
    \A d \in DeviceIds : ~InRegistry(d) => procs[d] = 0

====
